---- MODULE Spec2Model ----
(***************************************************************************)
(* A model of the in-memory relational core of libopenschichtplaner5:      *)
(* the plugin registry (dependency-ordered loading), the relationship      *)
(* manager, the relationship index and resolver, and the query engine.     *)
(* Every definition is a translation of the Python source it is mapped to. *)
(***************************************************************************)
EXTENDS Integers, Sequences, FiniteSets, TLC

(***************************************************************************)
(* Bounds of the model.                                                    *)
(***************************************************************************)
NumTables == 3

NumLoadTables == 2

MaxStrLen == 2

MaxRows == 2

MaxLimit == 2
MaxDepth == 2
MaxRecords == 3
MaxCacheSize == 2

TableNames == 1..NumTables

\* Python's None
None == "None"

VARIABLES
    plugins,        \* PluginRegistry.plugins: table name -> [deps, optional]
    loaded_tables,  \* PluginRegistry.loaded_tables: table name -> data
    load_errors,    \* PluginRegistry.load_errors: the set of tables with a recorded error
    metadata,       \* PluginRegistry.metadata: table name -> [count]
    ret             \* what the last registry call returned or raised

regVars == <<plugins, loaded_tables, load_errors, metadata, ret>>

VARIABLES
    f_record,       \* the record a Filter is applied to
    f_filter,       \* the Filter: [field, operator, value]
    f_result        \* what Filter.apply returned or raised

filterVars == <<f_record, f_filter, f_result>>

VARIABLES
    relationships,  \* RelationshipManager.relationships
    rel_index       \* RelationshipManager._index

relVars == <<relationships, rel_index>>

VARIABLES
    q_loaded_tables,    \* Query.loaded_tables: table name -> list of records
    q_from_table,       \* Query._from_table
    q_filters,          \* Query._filters
    q_joins,            \* Query._joins
    q_order_by,         \* Query._order_by
    q_limit,            \* Query._limit
    q_offset,           \* Query._offset
    q_select_fields,    \* Query._select_fields
    q_enrich_depth,     \* Query._enrich_depth
    q_result            \* what the chain of calls returned or raised

queryVars == <<q_loaded_tables, q_from_table, q_filters, q_joins, q_order_by,
               q_limit, q_offset, q_select_fields, q_enrich_depth, q_result>>

VARIABLES
    rr_forward,     \* resolve_reference(A rows, A, B, B rows)
    rr_reverse      \* resolve_reference(B rows, B, A, A rows)

resolveVars == <<rr_forward, rr_reverse>>

VARIABLES
    idx_indexes,    \* RelationshipIndex._indexes, in insertion order
    idx_result,     \* the arguments and the result of the last lookup
    idx_build       \* history: the last build_index call, how often it was
                    \* repeated, and the indexes as they were after its first run

idxVars == <<idx_indexes, idx_result, idx_build>>

VARIABLES
    schemas,            \* RelationshipResolver.schemas
    schema_index,       \* RelationshipResolver._schema_index
    res_cache,          \* RelationshipResolver._cache, in insertion order
    res_lru,            \* the lru_cache of _get_schemas_for_tables
    res_cache_size,     \* RelationshipResolver._cache_size
    res_loaded_tables,  \* history: the tables of the last build_data_indexes
    res_result          \* the arguments and the result of the last resolve_relationship

resVars == <<schemas, schema_index, res_cache, res_lru, res_cache_size, res_loaded_tables, res_result>>

VARIABLES
    qe_files,           \* the files of dbf_dir: table name -> one entry per extension
    qe_loaded_tables,   \* QueryEngine.loaded_tables
    qe_engine           \* whether QueryEngine(dbf_dir) has returned, or what it raised

engineVars == <<qe_files, qe_loaded_tables, qe_engine>>

\* the components added to the first seven
VARIABLES
    st_config,          \* StreamingDBFReader.config
    st_total_records,   \* StreamingDBFReader._total_records
    st_chunk_cache,     \* StreamingDBFReader._chunk_cache
    st_cache_index,     \* StreamingDBFReader._cache_index
    st_result           \* the last stream_records call and what it yielded

streamVars == <<st_config, st_total_records, st_chunk_cache, st_cache_index, st_result>>

VARIABLES
    dc_name,            \* the table load_table is called for
    dc_raw,             \* the records DBFTable.records() yields for the file
    dc_result           \* what load_table returned or raised

decodeVars == <<dc_name, dc_raw, dc_result>>

VARIABLES
    definitions         \* PluginRegistry.definitions

defVars == <<definitions>>

VARIABLES
    vr_loaded_tables,   \* the loaded_tables validate_relationships is called on
    vr_errors           \* what validate_relationships returned

validateVars == <<vr_loaded_tables, vr_errors>>

VARIABLES
    jp_result           \* the last get_join_path call and what it returned

pathVars == <<jp_result>>

extraVars == <<engineVars, streamVars, decodeVars, defVars, validateVars, pathVars>>

vars == <<regVars, filterVars, relVars, queryVars, resolveVars, idxVars, resVars, extraVars>>

(***************************************************************************)
(* Helpers on sequences.                                                   *)
(***************************************************************************)
Range(s) == {s[i] : i \in DOMAIN s}

\* every enumeration without repetition of the finite set S: the orders in
\* which Python may iterate a set of strings (hash order is not specified)
IterationOrders(S) ==
    {s \in [1..Cardinality(S) -> S] : \A i, j \in DOMAIN s : i # j => s[i] # s[j]}

IndexOf(s, x) == CHOOSE i \in DOMAIN s : s[i] = x

\* dict assignment d[k] = v
DictSet(d, k, v) == [x \in DOMAIN d \cup {k} |-> IF x = k THEN v ELSE d[x]]

(***************************************************************************)
(* Field values: None, integers and strings (sequences of characters), and *)
(* lists of them as the operand of IN and NOT_IN.                          *)
(***************************************************************************)
NoneValue == [type |-> "None", n |-> 0, s |-> <<>>, items |-> {}]
IntValue(n) == [type |-> "int", n |-> n, s |-> <<>>, items |-> {}]
StrValue(s) == [type |-> "str", n |-> 0, s |-> s, items |-> {}]
ListValue(items) == [type |-> "list", n |-> 0, s |-> <<>>, items |-> items]

\* what an index holds under a key and what lookup returns: None, a single
\* record, or a list of records
NoneResult == [kind |-> "None", rows |-> <<>>]
Single(record) == [kind |-> "record", rows |-> <<record>>]
List(rows) == [kind |-> "list", rows |-> rows]

\* getattr(record, field, None): a record maps the attributes it has
GetAttr(record, field) ==
    IF field \in DOMAIN record THEN record[field] ELSE NoneValue

Chars == {"A", "N", "a", "n"}

\* the code point of a character
Ord(c) ==
    CASE c = "0" -> 48 [] c = "1" -> 49
      [] c = "A" -> 65 [] c = "N" -> 78
      [] c = "a" -> 97 [] c = "n" -> 110

\* str.lower on one character
LowerChar(c) == CASE c = "A" -> "a" [] c = "N" -> "n" [] OTHER -> c

\* str.lower
Lower(s) == [i \in DOMAIN s |-> LowerChar(s[i])]

\* str(value) of an integer below 10 or of a string
Str(v) ==
    IF v.type = "str" THEN v.s
    ELSE <<(<<"0", "1", "2", "3", "4", "5", "6", "7", "8", "9">>)[v.n + 1]>>

\* s.startswith(prefix)
StartsWith(s, prefix) ==
    Len(prefix) <= Len(s) /\ SubSeq(s, 1, Len(prefix)) = prefix

\* s.endswith(suffix)
EndsWith(s, suffix) ==
    Len(suffix) <= Len(s) /\ SubSeq(s, Len(s) - Len(suffix) + 1, Len(s)) = suffix

\* sub in s
Contains(sub, s) ==
    \E i \in 0..(Len(s) - Len(sub)) : SubSeq(s, i + 1, i + Len(sub)) = sub

\* a < b on strings: the first differing character decides, a proper prefix
\* is smaller
StrLess(a, b) ==
    \E i \in 1..Len(b) :
        /\ \A j \in 1..(i - 1) : j <= Len(a) /\ a[j] = b[j]
        /\ \/ i = Len(a) + 1
           \/ i <= Len(a) /\ Ord(a[i]) < Ord(b[i])

\* a < b on two values of the same type
Less(a, b) == IF a.type = "int" THEN a.n < b.n ELSE StrLess(a.s, b.s)

(***************************************************************************)
(* Filter                                                                  *)
(***************************************************************************)
FilterOperator ==
    {"=", "!=", ">", "<", ">=", "<=", "in", "not_in", "contains",
     "starts_with", "ends_with", "is_null", "is_not_null"}

OrderingOperators == {">", "<", ">=", "<="}

\* whether the comparison of Filter.apply raises TypeError: an ordering of
\* values of different types, or a membership test in something not a list
FilterRaises(filter, record) ==
    LET field_value == GetAttr(record, filter.field) IN
    /\ filter.operator \notin {"is_null", "is_not_null"}
    /\ field_value.type # "None"
    /\ \/ /\ filter.operator \in OrderingOperators
          /\ field_value.type # filter.value.type
       \/ /\ filter.operator \in {"in", "not_in"}
          /\ filter.value.type # "list"

\* (mutant) Filter.apply without the "elif field_value is None: return False"
FilterApplyNoNoneGuard(filter, record) ==
    LET field_value == GetAttr(record, filter.field)
        value == filter.value
        op == filter.operator
    IN  CASE op = "is_null" -> field_value.type = "None"
          [] op = "is_not_null" -> field_value.type # "None"
          [] op = "=" -> field_value = value
          [] op = "!=" -> field_value # value
          [] op = "in" -> field_value \in value.items
          [] op = "not_in" -> field_value \notin value.items
          [] OTHER -> FALSE

\* Filter.apply, where it does not raise
FilterApply(filter, record) ==
    LET field_value == GetAttr(record, filter.field)
        value == filter.value
        op == filter.operator
    IN  IF op = "is_null" THEN field_value.type = "None"
        ELSE IF op = "is_not_null" THEN field_value.type # "None"
        ELSE IF field_value.type = "None" THEN FALSE
        ELSE CASE op = "=" -> field_value = value
               [] op = "!=" -> field_value # value
               [] op = ">" -> Less(value, field_value)
               [] op = "<" -> Less(field_value, value)
               [] op = ">=" -> ~Less(field_value, value)
               [] op = "<=" -> ~Less(value, field_value)
               [] op = "in" -> field_value \in value.items
               [] op = "not_in" -> field_value \notin value.items
               [] op = "contains" -> Contains(Lower(Str(value)), Lower(Str(field_value)))
               [] op = "starts_with" -> StartsWith(Lower(Str(field_value)), Lower(Str(value)))
               [] op = "ends_with" -> EndsWith(Lower(Str(field_value)), Lower(Str(value)))
               [] OTHER -> FALSE

\* the strings of at most MaxStrLen characters
Strings == UNION {[1..n -> Chars] : n \in 0..MaxStrLen}

\* the scalar values a field or an operand takes
Scalars == {IntValue(0), IntValue(1)} \cup {StrValue(s) : s \in Strings}

\* the records filtered: the attribute "name" absent, None or a scalar
FilterRecords ==
    {<<>>} \cup {[f \in {"name"} |-> v] : v \in Scalars \cup {NoneValue}}

\* the filters applied: a scalar operand, or for the membership operators a
\* list of at most one scalar
Filters ==
    {[field |-> "name", operator |-> op, value |-> v] :
        op \in FilterOperator \ {"in", "not_in"}, v \in Scalars}
    \cup
    {[field |-> "name", operator |-> op, value |-> ListValue(items)] :
        op \in {"in", "not_in"}, items \in {{}} \cup {{v} : v \in Scalars}}

\* no filter at hand
FilterIdle ==
    /\ f_record = <<>>
    /\ f_filter = [field |-> "name", operator |-> "is_null", value |-> NoneValue]
    /\ f_result = "idle"

\* a record and a Filter(field, operator, value) are at hand
FilterInit ==
    /\ f_record \in FilterRecords
    /\ f_filter \in Filters
    /\ f_result = "none"

\* filter.apply(record)
Apply ==
    /\ f_result = "none"
    /\ f_result' = IF FilterRaises(f_filter, f_record) THEN "TypeError"
                   ELSE IF FilterApply(f_filter, f_record) THEN "True" ELSE "False"
    /\ UNCHANGED <<f_record, f_filter>>

(***************************************************************************)
(* RelationshipManager                                                     *)
(***************************************************************************)
ONE_TO_ONE == "1:1"
ONE_TO_MANY == "1:N"
MANY_TO_ONE == "N:1"
MANY_TO_MANY == "N:N"

RelationType == {ONE_TO_ONE, ONE_TO_MANY, MANY_TO_ONE, MANY_TO_MANY}

TableRelationship(source_table, source_field, target_table, target_field, relationship_type) ==
    [source_table |-> source_table, source_field |-> source_field,
     target_table |-> target_table, target_field |-> target_field,
     relationship_type |-> relationship_type]

\* _define_relationships, the relationships among 5EMPL, 5GROUP and 5GRASG
DefinedRelationships ==
    {TableRelationship("5EMPL", "id", "5MASHI", "employee_id", ONE_TO_MANY),
     TableRelationship("5EMPL", "id", "5GRASG", "employee_id", ONE_TO_MANY),
     TableRelationship("5GROUP", "id", "5GRASG", "group_id", ONE_TO_MANY),
     TableRelationship("5MASHI", "employee_id", "5EMPL", "id", MANY_TO_ONE)}

reverse_key(table) == "_reverse_" \o table

\* _build_index: the relationships by source table and, under the reverse key,
\* by target table
build_index_of(rels) ==
    LET tables == {rel.source_table : rel \in rels}
        reverse == {rel.target_table : rel \in rels}
    IN  [k \in tables \cup {reverse_key(t) : t \in reverse} |->
            IF k \in tables
            THEN {rel \in rels : rel.source_table = k}
            ELSE {rel \in rels : reverse_key(rel.target_table) = k}]

\* __post_init__
RelationshipManagerInit ==
    /\ relationships = DefinedRelationships
    /\ rel_index = build_index_of(DefinedRelationships)

\* add_relationship: the relationship joins the set; _index is built only
\* by __post_init__
add_relationship(rel) ==
    /\ relationships' = relationships \cup {rel}
    /\ UNCHANGED rel_index

get_relationships_from(table) ==
    IF table \in DOMAIN rel_index THEN rel_index[table] ELSE {}

get_relationships_to(table) ==
    IF reverse_key(table) \in DOMAIN rel_index
    THEN rel_index[reverse_key(table)] ELSE {}

(***************************************************************************)
(* UpdatedRelationshipManager                                              *)
(***************************************************************************)
\* _define_all_relationships, the relationships among 5EMPL, 5GROUP,
\* 5GRASG, 5CYCLE, 5CYASS and 5CYEXC
UpdatedRelationships ==
    {TableRelationship("5EMPL", "ID", "5GRASG", "EMPLOYEEID", ONE_TO_MANY),
     TableRelationship("5GROUP", "ID", "5GRASG", "GROUPID", ONE_TO_MANY),
     TableRelationship("5EMPL", "ID", "5CYASS", "EMPLOYEEID", ONE_TO_MANY),
     TableRelationship("5EMPL", "ID", "5CYEXC", "EMPLOYEEID", ONE_TO_MANY),
     TableRelationship("5CYCLE", "ID", "5CYASS", "CYCLEID", ONE_TO_MANY),
     TableRelationship("5CYASS", "ID", "5CYEXC", "CYCLEASSID", ONE_TO_MANY)}

\* UpdatedRelationshipManager.__init__
UpdatedManagerInit ==
    /\ relationships = UpdatedRelationships
    /\ rel_index = build_index_of(UpdatedRelationships)

\* while queue and len(visited) < 50
visited_limit == 50

_reverse_relation_type(rel_type) ==
    IF rel_type = ONE_TO_MANY THEN MANY_TO_ONE
    ELSE IF rel_type = MANY_TO_ONE THEN ONE_TO_MANY
    ELSE rel_type

\* the reverse relationship get_join_path creates for rel at current_table
reverse_rel(current_table, rel) ==
    TableRelationship(current_table, rel.target_field, rel.source_table,
                      rel.source_field, _reverse_relation_type(rel.relationship_type))

NoPath == [kind |-> "None", path |-> <<>>]
Path(path) == [kind |-> "path", path |-> path]

\* for rel in self.get_relationships_from(current_table), from rels[i] on;
\* st holds the queue, the visited tables and what was returned, if anything
RECURSIVE OutgoingLoop(_, _, _, _, _)
OutgoingLoop(rels, i, path, to_table, st) ==
    IF i > Len(rels) THEN st
    ELSE IF rels[i].target_table = to_table
    THEN [st EXCEPT !.returned = Path(Append(path, rels[i]))]
    ELSE IF rels[i].target_table \notin st.visited
    THEN OutgoingLoop(rels, i + 1, path, to_table,
             [st EXCEPT !.visited = @ \cup {rels[i].target_table},
                        !.queue = Append(@, [table |-> rels[i].target_table,
                                             path |-> Append(path, rels[i])])])
    ELSE OutgoingLoop(rels, i + 1, path, to_table, st)

\* for rel in self.get_relationships_to(current_table), from rels[i] on
RECURSIVE IncomingLoop(_, _, _, _, _, _)
IncomingLoop(rels, i, current_table, path, to_table, st) ==
    IF i > Len(rels) THEN st
    ELSE IF rels[i].source_table = to_table
    THEN [st EXCEPT !.returned = Path(Append(path, reverse_rel(current_table, rels[i])))]
    ELSE IF rels[i].source_table \notin st.visited
    THEN IncomingLoop(rels, i + 1, current_table, path, to_table,
             [st EXCEPT !.visited = @ \cup {rels[i].source_table},
                        !.queue = Append(@, [table |-> rels[i].source_table,
                                             path |-> Append(path,
                                                 reverse_rel(current_table, rels[i]))])])
    ELSE IncomingLoop(rels, i + 1, current_table, path, to_table, st)

\* the list _build_index made of the relationships of one key: they are in
\* the order in which the set of relationships was iterated
IndexList(order, rels) ==
    LET In(rel) == rel \in rels IN SelectSeq(order, In)

\* the while loop of the breadth-first search
RECURSIVE SearchLoop(_, _, _, _)
SearchLoop(order, to_table, max_depth, st) ==
    IF st.queue = <<>> \/ Cardinality(st.visited) >= visited_limit THEN NoPath
    ELSE LET current == Head(st.queue)
             popped == [st EXCEPT !.queue = Tail(@)]
         IN  IF Len(current.path) >= max_depth
             THEN SearchLoop(order, to_table, max_depth, popped)
             ELSE LET out == OutgoingLoop(
                                 IndexList(order, get_relationships_from(current.table)),
                                 1, current.path, to_table, popped)
                      back == IncomingLoop(
                                 IndexList(order, get_relationships_to(current.table)),
                                 1, current.table, current.path, to_table, out)
                  IN  IF out.returned.kind # "none" THEN out.returned
                      ELSE IF back.returned.kind # "none" THEN back.returned
                      ELSE SearchLoop(order, to_table, max_depth, back)

\* get_join_path(from_table, to_table, max_depth) on an index whose lists
\* follow order
get_join_path(order, from_table, to_table, max_depth) ==
    IF from_table = to_table THEN Path(<<>>)
    ELSE SearchLoop(order, to_table, max_depth,
                    [queue |-> <<[table |-> from_table, path |-> <<>>]>>,
                     visited |-> {from_table}, returned |-> [kind |-> "none"]])

\* the relationships the index holds
IndexedRelationships == UNION {rel_index[k] : k \in DOMAIN rel_index}

\* manager.get_join_path(from_table, to_table, max_depth)
GetJoinPath(from_table, to_table, max_depth) ==
    /\ \E order \in IterationOrders(IndexedRelationships) :
          jp_result' = [kind |-> "called", from_table |-> from_table,
                        to_table |-> to_table, max_depth |-> max_depth,
                        returned |-> get_join_path(order, from_table, to_table,
                                                   max_depth)]
    /\ UNCHANGED relVars

(***************************************************************************)
(* RelationshipManager.validate_relationships                              *)
(***************************************************************************)
\* the loop of validate_relationships over the relationships in the order of
\* the set, from relationship i on: the errors appended
RECURSIVE ValidateLoop(_, _, _, _)
ValidateLoop(order, i, tables, errors) ==
    IF i > Len(order) THEN errors
    ELSE LET rel == order[i]
             Lacks(table, field) ==
                 IF tables[table] # <<>> /\ field \notin DOMAIN tables[table][1]
                 THEN <<[error |-> "Field not found", table |-> table, field |-> field]>>
                 ELSE <<>>
         IN  IF rel.source_table \notin DOMAIN tables
             THEN ValidateLoop(order, i + 1, tables,
                               Append(errors, [error |-> "Source table not loaded",
                                               table |-> rel.source_table, field |-> ""]))
             ELSE IF rel.target_table \notin DOMAIN tables
             THEN ValidateLoop(order, i + 1, tables,
                               Append(errors, [error |-> "Target table not loaded",
                                               table |-> rel.target_table, field |-> ""]))
             ELSE ValidateLoop(order, i + 1, tables,
                               errors \o Lacks(rel.source_table, rel.source_field)
                                      \o Lacks(rel.target_table, rel.target_field))

\* relationship_manager.validate_relationships(loaded_tables)
validate_relationships ==
    /\ vr_errors.kind = "none"
    /\ \E order \in IterationOrders(relationships) :
          vr_errors' = [kind |-> "errors",
                        errors |-> ValidateLoop(order, 1, vr_loaded_tables, <<>>)]
    /\ UNCHANGED vr_loaded_tables

\* the records of data, in order, whose field holds value
RecordsWith(data, field, value) ==
    LET Has(record) == GetAttr(record, field) = value IN SelectSeq(data, Has)

\* the matching loop of resolve_reference from source_data[i] on: a list in
\* target_index gives a pair for each of its records, a single record (the
\* last one stored under the key) gives one pair
RECURSIVE ResolveMatches(_, _, _, _)
ResolveMatches(relationship, source_data, i, target_data) ==
    IF i > Len(source_data) THEN <<>>
    ELSE LET source_record == source_data[i]
             source_value == GetAttr(source_record, relationship.source_field)
             targets == RecordsWith(target_data, relationship.target_field, source_value)
             pairs ==
                 IF source_value.type = "None" \/ targets = <<>> THEN <<>>
                 ELSE IF relationship.relationship_type \in {ONE_TO_MANY, MANY_TO_MANY}
                 THEN [j \in DOMAIN targets |-> <<source_record, targets[j]>>]
                 ELSE <<(<<source_record, targets[Len(targets)]>>)>>
         IN  pairs \o ResolveMatches(relationship, source_data, i + 1, target_data)

\* resolve_reference: the relationship declared from source_table to
\* target_table, else the one declared from target_table to source_table with
\* its two ends swapped and the two row collections swapped as well
resolve_reference(source_data, source_table, target_table, target_data) ==
    LET forward == {rel \in get_relationships_from(source_table) :
                        rel.target_table = target_table}
        reverse == {rel \in get_relationships_to(source_table) :
                        rel.source_table = target_table}
    IN  IF forward # {}
        THEN [kind |-> "matches",
              matches |-> ResolveMatches(CHOOSE rel \in forward : TRUE,
                                         source_data, 1, target_data)]
        ELSE IF reverse # {}
        THEN LET rel == CHOOSE r \in reverse : TRUE
                 swapped == TableRelationship(target_table, rel.target_field,
                                              source_table, rel.source_field,
                                              rel.relationship_type)
             IN  [kind |-> "matches",
                  matches |-> ResolveMatches(swapped, target_data, 1, source_data)]
        ELSE [kind |-> "ValueError"]

(***************************************************************************)
(* Query                                                                   *)
(***************************************************************************)
Ids == {1, 2}

\* an Employee record and a GroupAssignment record
Employee(id) == [f \in {"id"} |-> IntValue(id)]

GroupAssignment(id, employee_id) ==
    [f \in {"id", "employee_id"} |->
        IF f = "id" THEN IntValue(id) ELSE IntValue(employee_id)]

\* the loaded tables a Query is constructed on: employees with distinct ids
\* in any order, and up to MaxRows group assignments numbered in file order
Snapshots ==
    {[t \in {"5EMPL", "5GRASG"} |->
        IF t = "5EMPL"
        THEN [i \in DOMAIN ids |-> Employee(ids[i])]
        ELSE [i \in DOMAIN fks |-> GroupAssignment(i, fks[i])]] :
     ids \in UNION {IterationOrders(S) : S \in SUBSET Ids},
     fks \in UNION {[1..n -> Ids] : n \in 0..MaxRows}}

NotSet == [set |-> FALSE, n |-> 0]
SetTo(n) == [set |-> TRUE, n |-> n]

NoOrder == [set |-> FALSE, field |-> "", ascending |-> TRUE]
OrderBy(field, ascending) == [set |-> TRUE, field |-> field, ascending |-> ascending]

NoResult == [kind |-> "none"]

\* Query.__init__: an empty plan
NewQuery ==
    /\ q_from_table = None
    /\ q_filters = <<>>
    /\ q_joins = <<>>
    /\ q_order_by = NoOrder
    /\ q_limit = NotSet
    /\ q_offset = 0
    /\ q_select_fields = NoneValue
    /\ q_enrich_depth = 0
    /\ q_result = NoResult

QueryInit == q_loaded_tables \in Snapshots /\ NewQuery

\* no query at hand
QueryIdle ==
    /\ q_loaded_tables = <<>>
    /\ q_from_table = None
    /\ q_filters = <<>>
    /\ q_joins = <<>>
    /\ q_order_by = NoOrder
    /\ q_limit = NotSet
    /\ q_offset = 0
    /\ q_select_fields = NoneValue
    /\ q_enrich_depth = 0
    /\ q_result = [kind |-> "idle"]

normalize_table_name(table) ==
    IF /\ table = "5MASHI"
       /\ "5MASHI" \notin DOMAIN q_loaded_tables
       /\ "5SPSHI" \in DOMAIN q_loaded_tables
    THEN "5SPSHI" ELSE table

\* a select that assigns the plan before it checks the table
select_assigns_first(table, fields) ==
    /\ q_result = NoResult
    /\ q_from_table' = normalize_table_name(table)
    /\ q_select_fields' = fields
    /\ q_result' = IF normalize_table_name(table) \notin DOMAIN q_loaded_tables
                   THEN [kind |-> "ValueError"] ELSE q_result
    /\ UNCHANGED <<q_loaded_tables, q_filters, q_joins, q_order_by, q_limit, q_offset,
                   q_enrich_depth>>

\* query.select(table, fields)
select(table, fields) ==
    /\ q_result = NoResult
    /\ IF normalize_table_name(table) \notin DOMAIN q_loaded_tables
       THEN /\ q_result' = [kind |-> "ValueError"]
            /\ UNCHANGED <<q_from_table, q_select_fields>>
       ELSE /\ q_from_table' = normalize_table_name(table)
            /\ q_select_fields' = fields
            /\ UNCHANGED q_result
    /\ UNCHANGED <<q_loaded_tables, q_filters, q_joins, q_order_by, q_limit, q_offset,
                   q_enrich_depth>>

\* query.where(field, operator, value)
where(field, operator, value) ==
    /\ q_result = NoResult
    /\ q_filters' = Append(q_filters, [field |-> field, operator |-> operator,
                                       value |-> value])
    /\ UNCHANGED <<q_loaded_tables, q_from_table, q_joins, q_order_by, q_limit,
                   q_offset, q_select_fields, q_enrich_depth, q_result>>

\* query.join(table)
join(table) ==
    /\ q_result = NoResult
    /\ IF normalize_table_name(table) \notin DOMAIN q_loaded_tables
       THEN q_result' = [kind |-> "ValueError"] /\ UNCHANGED q_joins
       ELSE q_joins' = Append(q_joins, normalize_table_name(table)) /\ UNCHANGED q_result
    /\ UNCHANGED <<q_loaded_tables, q_from_table, q_filters, q_order_by, q_limit, q_offset,
                   q_select_fields, q_enrich_depth>>

\* query.with_relations(depth)
with_relations(depth) ==
    /\ q_result = NoResult
    /\ q_enrich_depth' = depth
    /\ UNCHANGED <<q_loaded_tables, q_from_table, q_filters, q_joins, q_order_by,
                   q_limit, q_offset, q_select_fields, q_result>>

\* query.order_by(field, ascending)
order_by(field, ascending) ==
    /\ q_result = NoResult
    /\ q_order_by' = OrderBy(field, ascending)
    /\ UNCHANGED <<q_loaded_tables, q_from_table, q_filters, q_joins, q_limit,
                   q_offset, q_select_fields, q_enrich_depth, q_result>>

\* query.limit(n)
limit(n) ==
    /\ q_result = NoResult
    /\ q_limit' = SetTo(n)
    /\ UNCHANGED <<q_loaded_tables, q_from_table, q_filters, q_joins, q_order_by,
                   q_offset, q_select_fields, q_enrich_depth, q_result>>

\* query.offset(n)
offset(n) ==
    /\ q_result = NoResult
    /\ q_offset' = n
    /\ UNCHANGED <<q_loaded_tables, q_from_table, q_filters, q_joins, q_order_by,
                   q_limit, q_select_fields, q_enrich_depth, q_result>>

\* get_entity_with_relations(entity, entity_table, loaded_tables, max_depth):
\* the relationships from the table whose target is loaded, whose source
\* value is set and which have matches; a match is enriched one level less
\* deep when max_depth > 1; a to-one relationship keeps the first match
RECURSIVE get_entity_with_relations(_, _, _, _)
get_entity_with_relations(entity, entity_table, tables, max_depth) ==
    LET Matches(rel) ==
            LET found == RecordsWith(tables[rel.target_table], rel.target_field,
                                     GetAttr(entity, rel.source_field))
            IN  IF max_depth > 1
                THEN [j \in DOMAIN found |->
                         get_entity_with_relations(found[j], rel.target_table,
                                                   tables, max_depth - 1)]
                ELSE found
        followed == IF max_depth <= 0 THEN {}
                    ELSE {rel \in get_relationships_from(entity_table) :
                             /\ rel.target_table \in DOMAIN tables
                             /\ GetAttr(entity, rel.source_field) # NoneValue
                             /\ Matches(rel) # <<>>}
        relations == [t \in {rel.target_table : rel \in followed} |->
                         LET rel == CHOOSE r \in followed : r.target_table = t
                         IN  IF rel.relationship_type \in {ONE_TO_ONE, MANY_TO_ONE}
                             THEN Single(Matches(rel)[1])
                             ELSE List(Matches(rel))]
    IN  [k \in {"_entity", "_table", "_relations"} |->
            IF k = "_entity" THEN entity
            ELSE IF k = "_table" THEN entity_table
            ELSE relations]

\* the filter loop of execute from filter i on; raised when an apply raises
RECURSIVE FilterLoop(_, _)
FilterLoop(results, i) ==
    IF i > Len(q_filters) THEN [raised |-> FALSE, results |-> results]
    ELSE IF \E k \in DOMAIN results : FilterRaises(q_filters[i], results[k])
    THEN [raised |-> TRUE, results |-> <<>>]
    ELSE LET Keep(r) == FilterApply(q_filters[i], r)
         IN  FilterLoop(SelectSeq(results, Keep), i + 1)

\* the loop of _enrich_with_joins from join i on: the relations gathered, or
\* the ValueError of resolve_reference
RECURSIVE JoinLoop(_, _, _, _)
JoinLoop(record, table, i, relations) ==
    IF i > Len(q_joins) THEN [kind |-> "relations", relations |-> relations]
    ELSE LET join_table == q_joins[i]
             resolved == resolve_reference(<<record>>, table, join_table,
                                           q_loaded_tables[join_table])
         IN  IF resolved.kind = "ValueError" THEN resolved
             ELSE IF resolved.matches # <<>>
             THEN JoinLoop(record, table, i + 1,
                           DictSet(relations, join_table,
                                   [j \in DOMAIN resolved.matches |->
                                       resolved.matches[j][2]]))
             ELSE JoinLoop(record, table, i + 1, relations)

\* _enrich_with_joins, where resolve_reference does not raise
enrich_with_joins(record, table) ==
    [k \in {"_entity", "_table", "_relations"} |->
        CASE k = "_entity" -> record
          [] k = "_table" -> table
          [] k = "_relations" -> JoinLoop(record, table, 1, <<>>).relations]

\* _get_sort_value
get_sort_value(record, field) ==
    IF "_entity" \in DOMAIN record
    THEN GetAttr(record["_entity"], field)
    ELSE GetAttr(record, field)

\* list.sort raises TypeError when it compares None, or values of two types
SortRaises(results, field) ==
    /\ Len(results) >= 2
    /\ \E i, j \in DOMAIN results :
          \/ get_sort_value(results[i], field).type \notin {"int", "str"}
          \/ get_sort_value(results[i], field).type # get_sort_value(results[j], field).type

\* list.sort(key, reverse) is stable: the record results[i] goes behind the
\* sorted records that do not come after it
RECURSIVE Sort(_, _, _, _)
Sort(results, i, field, reverse) ==
    IF i = 0 THEN <<>>
    ELSE LET sorted == Sort(results, i - 1, field, reverse)
             key == get_sort_value(results[i], field)
             NotAfter(r) == IF reverse THEN ~Less(get_sort_value(r, field), key)
                            ELSE ~Less(key, get_sort_value(r, field))
             k == Len(SelectSeq(sorted, NotAfter))
         IN  SubSeq(sorted, 1, k) \o <<results[i]>> \o SubSeq(sorted, k + 1, Len(sorted))

\* results[a:b] for a, b >= 0
Slice(results, a, b) ==
    SubSeq(results, a + 1, IF b < Len(results) THEN b ELSE Len(results))

\* execute up to and including the ordering: the list that is then sliced
Ordered ==
    LET filtered == FilterLoop(q_loaded_tables[q_from_table], 1)
        joined == IF q_joins # <<>>
                  THEN [i \in DOMAIN filtered.results |->
                           enrich_with_joins(filtered.results[i], q_from_table)]
                  ELSE IF q_enrich_depth > 0
                  THEN [i \in DOMAIN filtered.results |->
                           get_entity_with_relations(filtered.results[i], q_from_table,
                                                     q_loaded_tables, q_enrich_depth)]
                  ELSE filtered.results
        join_raises == /\ q_joins # <<>>
                       /\ \E i \in DOMAIN filtered.results :
                             JoinLoop(filtered.results[i], q_from_table, 1, <<>>).kind
                                 = "ValueError"
    IN  IF filtered.raised THEN [kind |-> "TypeError"]
        ELSE IF join_raises THEN [kind |-> "ValueError"]
        ELSE IF ~q_order_by.set THEN [kind |-> "records", records |-> joined]
        ELSE IF SortRaises(joined, q_order_by.field) THEN [kind |-> "TypeError"]
        ELSE [kind |-> "records",
              records |-> Sort(joined, Len(joined), q_order_by.field,
                               ~q_order_by.ascending)]

\* the offset and limit of execute: "if self._offset:" and "if self._limit:"
OffsetLimit(results) ==
    LET skipped == IF q_offset # 0 THEN Slice(results, q_offset, Len(results))
                   ELSE results
    IN  IF q_limit.set /\ q_limit.n # 0 THEN Slice(skipped, 0, q_limit.n)
        ELSE skipped

\* query.execute()
execute ==
    /\ q_result = NoResult
    /\ q_result' =
          IF q_from_table = None THEN [kind |-> "ValueError"]
          ELSE IF Ordered.kind # "records" THEN Ordered
          ELSE [kind |-> "records", records |-> OffsetLimit(Ordered.records)]
    /\ UNCHANGED <<q_loaded_tables, q_from_table, q_filters, q_joins, q_order_by,
                   q_limit, q_offset, q_select_fields, q_enrich_depth>>

\* resolve_reference between the employees (A) and the group assignments (B)
ResolveForward ==
    /\ rr_forward = NoResult
    /\ rr_forward' = resolve_reference(q_loaded_tables["5EMPL"], "5EMPL", "5GRASG",
                                       q_loaded_tables["5GRASG"])
    /\ UNCHANGED rr_reverse

ResolveReverse ==
    /\ rr_reverse = NoResult
    /\ rr_reverse' = resolve_reference(q_loaded_tables["5GRASG"], "5GRASG", "5EMPL",
                                       q_loaded_tables["5EMPL"])
    /\ UNCHANGED rr_forward

ResolveInit == rr_forward = NoResult /\ rr_reverse = NoResult

ResolveIdle == rr_forward = [kind |-> "idle"] /\ rr_reverse = [kind |-> "idle"]


(***************************************************************************)
(* RelationshipIndex                                                       *)
(***************************************************************************)
\* the loop of build_index from records[i] on
RECURSIVE BuildLoop(_, _, _, _, _)
BuildLoop(records, i, field_name, rel_type, index) ==
    IF i > Len(records) THEN index
    ELSE LET record == records[i]
             key == GetAttr(record, field_name)
         IN  IF key.type = "None"
             THEN BuildLoop(records, i + 1, field_name, rel_type, index)
             ELSE IF rel_type = ONE_TO_ONE
             THEN BuildLoop(records, i + 1, field_name, rel_type,
                            DictSet(index, key, Single(record)))
             ELSE BuildLoop(records, i + 1, field_name, rel_type,
                            DictSet(index, key,
                                    IF key \in DOMAIN index
                                    THEN List(Append(index[key].rows, record))
                                    ELSE List(<<record>>)))

\* the position of the key "table:field" in the indexes, 0 if it has none
IndexPosition(indexes, idx_key) ==
    IF \E i \in DOMAIN indexes : indexes[i].key = idx_key
    THEN CHOOSE i \in DOMAIN indexes : indexes[i].key = idx_key
    ELSE 0

\* self._indexes[key] = index: a key keeps its place, a new key goes last
StoreIndex(indexes, idx_key, index) ==
    IF IndexPosition(indexes, idx_key) = 0
    THEN Append(indexes, [key |-> idx_key, index |-> index])
    ELSE [indexes EXCEPT ![IndexPosition(indexes, idx_key)].index = index]

\* (mutant) build_index that adds to the index the key already has
build_index_adding(indexes, table_name, records, field_name, rel_type) ==
    LET pos == IndexPosition(indexes, <<table_name, field_name>>)
        old == IF pos = 0 THEN <<>> ELSE indexes[pos].index
    IN  StoreIndex(indexes, <<table_name, field_name>>,
                   BuildLoop(records, 1, field_name, rel_type, old))

\* build_index: the indexes after the call. The key f"{table}:{field}" is
\* the pair of its two parts.
build_index(indexes, table_name, records, field_name, rel_type) ==
    StoreIndex(indexes, <<table_name, field_name>>,
               BuildLoop(records, 1, field_name, rel_type, <<>>))

\* lookup: index.get(key) of the first index whose key starts with the table
lookup(indexes, table_name, key, rel_type) ==
    LET of_table == {i \in DOMAIN indexes : indexes[i].key[1] = table_name} IN
    IF of_table # {}
    THEN LET first == CHOOSE i \in of_table : \A j \in of_table : i <= j
         IN  IF key \in DOMAIN indexes[first].index
             THEN indexes[first].index[key]
             ELSE NoneResult
    ELSE IF rel_type # ONE_TO_ONE THEN List(<<>>) ELSE NoneResult

\* the group assignments a table may hold
GroupAssignments ==
    {[i \in DOMAIN fks |-> GroupAssignment(i, fks[i])] :
        fks \in UNION {[1..n -> Ids] : n \in 0..MaxRows}}

NoBuild == [args |-> <<>>, count |-> 0, once |-> <<>>]

\* RelationshipIndex.__init__
IndexInit ==
    /\ idx_indexes = <<>>
    /\ idx_result = NoResult
    /\ idx_build = NoBuild

IndexIdle ==
    /\ idx_indexes = <<>>
    /\ idx_result = [kind |-> "idle"]
    /\ idx_build = NoBuild

\* index.build_index(table_name, records, field_name, rel_type)
BuildIndex(table_name, records, field_name, rel_type) ==
    LET args == <<table_name, records, field_name, rel_type>>
        built == build_index(idx_indexes, table_name, records, field_name, rel_type)
    IN  /\ idx_indexes' = built
        /\ idx_build' = IF idx_build.args = args
                        THEN [idx_build EXCEPT !.count = 2]
                        ELSE [args |-> args, count |-> 1, once |-> built]
        /\ idx_result' = NoResult

\* index.lookup(table_name, key, rel_type)
Lookup(table_name, key, rel_type) ==
    /\ idx_result' = [kind |-> "lookup", table_name |-> table_name, key |-> key,
                      rel_type |-> rel_type,
                      result |-> lookup(idx_indexes, table_name, key, rel_type)]
    /\ UNCHANGED <<idx_indexes, idx_build>>

(***************************************************************************)
(* RelationshipResolver                                                    *)
(***************************************************************************)
RelationshipSchema(source_table, target_table, relationship_type, source_field, target_field) ==
    [source_table |-> source_table, target_table |-> target_table,
     relationship_type |-> relationship_type,
     source_field |-> source_field, target_field |-> target_field]

\* create_default_resolver, the schema between 5EMPL and 5GRASG
DefaultSchemas ==
    <<RelationshipSchema("5EMPL", "5GRASG", ONE_TO_MANY, "id", "employee_id")>>

\* RelationshipResolver.__init__(cache_size=1000)
cache_size == 1000

\* add_schema of each schema in turn
RECURSIVE AddSchemas(_, _, _)
AddSchemas(added, i, index) ==
    IF i > Len(added) THEN index
    ELSE AddSchemas(added, i + 1,
                    DictSet(index, added[i].source_table,
                            IF added[i].source_table \in DOMAIN index
                            THEN Append(index[added[i].source_table], added[i])
                            ELSE <<added[i]>>))

\* the resolver create_default_resolver returns
ResolverInit ==
    /\ schemas = Range(DefaultSchemas)
    /\ schema_index = AddSchemas(DefaultSchemas, 1, <<>>)
    /\ res_cache = <<>>
    /\ res_lru = <<>>
    /\ res_cache_size = cache_size
    /\ res_loaded_tables = <<>>
    /\ res_result = NoResult

ResolverIdle ==
    /\ schemas = {}
    /\ schema_index = <<>>
    /\ res_cache = <<>>
    /\ res_lru = <<>>
    /\ res_cache_size = cache_size
    /\ res_loaded_tables = <<>>
    /\ res_result = [kind |-> "idle"]

\* the loop of build_data_indexes over the schemas in the order of the set
RECURSIVE BuildDataLoop(_, _, _, _)
BuildDataLoop(order, i, tables, indexes) ==
    IF i > Len(order) THEN indexes
    ELSE IF order[i].target_table \in DOMAIN tables
    THEN BuildDataLoop(order, i + 1, tables,
                       build_index(indexes, order[i].target_table,
                                   tables[order[i].target_table],
                                   order[i].target_field,
                                   order[i].relationship_type))
    ELSE BuildDataLoop(order, i + 1, tables, indexes)

\* resolver.build_data_indexes(tables); what was resolved before is not at
\* hand any more
build_data_indexes(tables) ==
    /\ \E order \in IterationOrders(schemas) :
          idx_indexes' = BuildDataLoop(order, 1, tables, idx_indexes)
    /\ res_loaded_tables' = tables
    /\ res_result' = NoResult
    /\ UNCHANGED <<schemas, schema_index, res_cache, res_lru, res_cache_size, idx_result,
                   idx_build>>

\* _get_schemas_for_tables without its lru_cache
get_schemas_for_tables(source_table, target_table) ==
    LET To(schema) == schema.target_table = target_table
    IN  IF source_table \in DOMAIN schema_index
        THEN SelectSeq(schema_index[source_table], To)
        ELSE <<>>

\* _get_schemas_for_tables: the list remembered for the two tables, if any
cached_schemas_for_tables(source_table, target_table) ==
    IF <<source_table, target_table>> \in DOMAIN res_lru
    THEN res_lru[<<source_table, target_table>>]
    ELSE get_schemas_for_tables(source_table, target_table)

\* the place of cache_key in the cache, 0 if it is not cached. An entity is
\* identified by its value: the source records of a table are distinct.
CachePosition(cache_key) ==
    IF \E i \in DOMAIN res_cache : res_cache[i].key = cache_key
    THEN CHOOSE i \in DOMAIN res_cache : res_cache[i].key = cache_key
    ELSE 0

\* (mutant) the eviction that pops the key inserted last
evict_newest(cache) ==
    IF Len(cache) >= res_cache_size THEN SubSeq(cache, 1, Len(cache) - 1) ELSE cache

\* if len(self._cache) >= self._cache_size: the first key of the dict is
\* popped before the new entry goes in
evict(cache) ==
    IF Len(cache) >= res_cache_size THEN Tail(cache) ELSE cache

\* what resolve_relationship computes on a cache miss with a schema at hand
ResolvedOnMiss(schema, source_entity, target_table) ==
    LET source_value == GetAttr(source_entity, schema.source_field) IN
    IF source_value.type = "None"
    THEN IF schema.relationship_type # ONE_TO_ONE THEN List(<<>>) ELSE NoneResult
    ELSE lookup(idx_indexes, target_table, source_value, schema.relationship_type)

\* resolver.resolve_relationship(source_entity, source_table, target_table)
resolve_relationship(source_entity, source_table, target_table) ==
    LET cache_key == <<source_entity, source_table, target_table>>
        found == cached_schemas_for_tables(source_table, target_table)
        result == ResolvedOnMiss(found[1], source_entity, target_table)
        room == evict(res_cache)
        Returns(r) == res_result' = [kind |-> "resolved", entity |-> source_entity,
                                     source_table |-> source_table,
                                     target_table |-> target_table,
                                     hit |-> CachePosition(cache_key) # 0,
                                     found |-> found, result |-> r]
    IN  /\ IF CachePosition(cache_key) # 0
           THEN /\ Returns(res_cache[CachePosition(cache_key)].result)
                /\ UNCHANGED <<res_cache, res_lru>>
           ELSE /\ res_lru' = DictSet(res_lru, <<source_table, target_table>>, found)
                /\ IF found = <<>>
                   THEN Returns(List(<<>>)) /\ UNCHANGED res_cache
                   ELSE /\ Returns(result)
                        /\ res_cache' = Append(room, [key |-> cache_key,
                                                      result |-> result])
        /\ UNCHANGED <<schemas, schema_index, res_cache_size, res_loaded_tables, idxVars>>

\* the lookup of the resolver's index, as resolve_relationship calls it
resolver_lookup(table_name, key, rel_type) ==
    /\ res_result' = [kind |-> "lookup", entity |-> <<>>,
                      result |-> lookup(idx_indexes, table_name, key, rel_type)]
    /\ UNCHANGED <<schemas, schema_index, res_cache, res_lru, res_cache_size,
                   res_loaded_tables, idxVars>>

\* resolve_relationship on the cache, the remembered schema lists and the
\* indexes of st: what it returns and what it leaves behind
ResolveIn(st, source_entity, source_table, target_table) ==
    LET cache_key == <<source_entity, source_table, target_table>>
        hit == {i \in DOMAIN st.cache : st.cache[i].key = cache_key}
        found == IF <<source_table, target_table>> \in DOMAIN st.lru
                 THEN st.lru[<<source_table, target_table>>]
                 ELSE get_schemas_for_tables(source_table, target_table)
        source_value == GetAttr(source_entity, found[1].source_field)
        result == IF source_value.type = "None"
                  THEN IF found[1].relationship_type # ONE_TO_ONE
                       THEN List(<<>>) ELSE NoneResult
                  ELSE lookup(st.indexes, target_table, source_value,
                              found[1].relationship_type)
        room == evict(st.cache)
        remembered == DictSet(st.lru, <<source_table, target_table>>, found)
    IN  IF hit # {}
        THEN [result |-> st.cache[CHOOSE i \in hit : TRUE].result, st |-> st]
        ELSE IF found = <<>>
        THEN [result |-> List(<<>>), st |-> [st EXCEPT !.lru = remembered]]
        ELSE [result |-> result,
              st |-> [st EXCEPT !.lru = remembered,
                                !.cache = Append(room, [key |-> cache_key,
                                                        result |-> result])]]

\* {"_entity": rel_entity, "_relations": sub_relations}
Wrapped(rel_entity, sub_relations) ==
    [k \in {"_entity", "_relations"} |->
        IF k = "_entity" THEN rel_entity ELSE sub_relations]

\* result[target_table][i] = wrapped: a non-empty list resolve_relationship
\* returned is the list object the index holds under the source value, and
\* the cache entries of the same tables and source value hold that object
\* too, so the assignment shows in all of them
AssignInList(st, source_table, target_table, source_field, source_value, i, wrapped) ==
    LET of_table == {k \in DOMAIN st.indexes : st.indexes[k].key[1] = target_table}
        first == CHOOSE k \in of_table : \A j \in of_table : k <= j
    IN  [st EXCEPT
            !.indexes = [@ EXCEPT ![first].index[source_value].rows[i] = wrapped],
            !.cache = [c \in DOMAIN @ |->
                          IF /\ @[c].key[2] = source_table
                             /\ @[c].key[3] = target_table
                             /\ GetAttr(@[c].key[1], source_field) = source_value
                             /\ @[c].result.kind = "list"
                             /\ i \in DOMAIN @[c].result.rows
                          THEN [@[c] EXCEPT !.result.rows[i] = wrapped]
                          ELSE @[c]]]

recursion_limit == 5

\* resolve_all_relationships with its two loops: over the schemas of the
\* table from schema j on, and over related[:5] from entity i on
RECURSIVE resolve_all_relationships(_, _, _, _, _, _)
RECURSIVE SchemaLoop(_, _, _, _, _, _, _, _)
RECURSIVE RelatedLoop(_, _, _, _, _, _, _, _, _, _)
RelatedLoop(st, result, related, i, entity, table_name, schema, tables, max_depth, current_depth) ==
    IF i > Len(related) \/ i > recursion_limit THEN [result |-> result, st |-> st]
    ELSE LET target == schema.target_table
             sub == resolve_all_relationships(st, related[i], target, tables,
                                              max_depth, current_depth + 1)
             wrapped == Wrapped(related[i], sub.result)
             source_field == get_schemas_for_tables(table_name, target)[1].source_field
         IN  IF DOMAIN sub.result # {} /\ result[target].kind = "list"
             THEN RelatedLoop(AssignInList(sub.st, table_name, target, source_field,
                                           GetAttr(entity, source_field), i, wrapped),
                              [result EXCEPT ![target].rows[i] = wrapped],
                              related, i + 1, entity, table_name, schema, tables,
                              max_depth, current_depth)
             ELSE RelatedLoop(sub.st, result, related, i + 1, entity, table_name,
                              schema, tables, max_depth, current_depth)

SchemaLoop(st, result, entity, table_name, tables, max_depth, current_depth, j) ==
    LET of_table == IF table_name \in DOMAIN schema_index
                    THEN schema_index[table_name] ELSE <<>>
    IN  IF j > Len(of_table) THEN [result |-> result, st |-> st]
        ELSE LET target == of_table[j].target_table
                 resolved == ResolveIn(st, entity, table_name, target)
                 related == resolved.result
                 truthy == \/ related.kind = "record"
                           \/ related.kind = "list" /\ related.rows # <<>>
                 set == DictSet(result, target, related)
                 Go(st2, result2) == SchemaLoop(st2, result2, entity, table_name,
                                                tables, max_depth, current_depth, j + 1)
             IN  IF target \notin DOMAIN tables THEN Go(st, result)
                 ELSE IF ~truthy THEN Go(resolved.st, result)
                 ELSE IF ~(current_depth < max_depth - 1) THEN Go(resolved.st, set)
                 ELSE IF related.kind = "list"
                 THEN LET done == RelatedLoop(resolved.st, set, related.rows, 1,
                                              entity, table_name, of_table[j], tables,
                                              max_depth, current_depth)
                      IN  Go(done.st, done.result)
                 ELSE LET sub == resolve_all_relationships(
                                     resolved.st, related.rows[1], target, tables,
                                     max_depth, current_depth + 1)
                      IN  Go(sub.st,
                             IF DOMAIN sub.result # {}
                             THEN DictSet(set, target,
                                          Single(Wrapped(related.rows[1], sub.result)))
                             ELSE set)

resolve_all_relationships(st, entity, table_name, tables, max_depth, current_depth) ==
    IF current_depth >= max_depth THEN [result |-> <<>>, st |-> st]
    ELSE SchemaLoop(st, <<>>, entity, table_name, tables, max_depth, current_depth, 1)

\* resolver.resolve_all_relationships(entity, table_name, loaded_tables, max_depth)
ResolveAllRelationships(entity, table_name, max_depth) ==
    LET done == resolve_all_relationships(
                    [indexes |-> idx_indexes, cache |-> res_cache, lru |-> res_lru],
                    entity, table_name, res_loaded_tables, max_depth, 0)
    IN  /\ idx_indexes' = done.st.indexes
        /\ res_cache' = done.st.cache
        /\ res_lru' = done.st.lru
        /\ res_result' = [kind |-> "relations", entity |-> entity,
                          result |-> done.result]
        /\ UNCHANGED <<schemas, schema_index, res_cache_size, res_loaded_tables, idx_result,
                       idx_build>>

\* a resolver with the schema from 5EMPL to 5GRASG and one added from 5GRASG
\* back to 5EMPL
ChainSchemas ==
    <<RelationshipSchema("5EMPL", "5GRASG", ONE_TO_MANY, "id", "employee_id"),
      RelationshipSchema("5GRASG", "5EMPL", MANY_TO_ONE, "employee_id", "id")>>

ChainResolverInit ==
    /\ schemas = Range(ChainSchemas)
    /\ schema_index = AddSchemas(ChainSchemas, 1, <<>>)
    /\ res_cache = <<>>
    /\ res_lru = <<>>
    /\ res_cache_size = cache_size
    /\ res_loaded_tables = <<>>
    /\ res_result = NoResult

\* the employees resolved, and the tables the indexes are built from: the
\* employees stay as they are, the group assignments are loaded anew
Employees == <<Employee(1), Employee(2)>>

ResolverTables ==
    {[t \in {"5EMPL", "5GRASG"} |-> IF t = "5EMPL" THEN Employees ELSE g] :
        g \in GroupAssignments}

\* resolver.add_schema(schema)
add_schema(schema) ==
    /\ schemas' = schemas \cup {schema}
    /\ schema_index' = AddSchemas(<<schema>>, 1, schema_index)
    /\ res_result' = NoResult
    /\ UNCHANGED <<res_cache, res_lru, res_cache_size, res_loaded_tables, idxVars>>

\* create_default_resolver, the two schemas whose target is 5GRASG
GroupSchemas ==
    <<RelationshipSchema("5EMPL", "5GRASG", ONE_TO_MANY, "id", "employee_id"),
      RelationshipSchema("5GROUP", "5GRASG", ONE_TO_MANY, "id", "group_id")>>

\* a Group record, and a GroupAssignment record with its group
Group(id) == [f \in {"id"} |-> IntValue(id)]

GroupMembership(id, employee_id, group_id) ==
    [f \in {"id", "employee_id", "group_id"} |->
        CASE f = "id" -> IntValue(id)
          [] f = "employee_id" -> IntValue(employee_id)
          [] f = "group_id" -> IntValue(group_id)]

Groups == <<Group(1), Group(2)>>

\* the tables with the employees, the groups and up to MaxRows assignments
\* of an employee to a group
GroupTables ==
    {[t \in {"5EMPL", "5GROUP", "5GRASG"} |->
        CASE t = "5EMPL" -> Employees
          [] t = "5GROUP" -> Groups
          [] t = "5GRASG" -> [i \in DOMAIN m |-> GroupMembership(i, m[i][1], m[i][2])]] :
     m \in UNION {[1..n -> Ids \X Ids] : n \in 0..MaxRows}}

\* RelationshipResolver(): no schema yet
NewResolver ==
    /\ schemas = {}
    /\ schema_index = <<>>
    /\ res_cache = <<>>
    /\ res_lru = <<>>
    /\ res_cache_size = cache_size
    /\ res_loaded_tables = <<>>
    /\ res_result = NoResult

\* RelationshipResolver(cache_size) with the two schemas of 5GRASG added
SmallCacheResolver ==
    /\ schemas = Range(GroupSchemas)
    /\ schema_index = AddSchemas(GroupSchemas, 1, <<>>)
    /\ res_cache = <<>>
    /\ res_lru = <<>>
    /\ res_cache_size \in 1..MaxCacheSize
    /\ res_loaded_tables = <<>>
    /\ res_result = NoResult

(***************************************************************************)
(* PluginRegistry                                                          *)
(***************************************************************************)

\* PluginRegistry.__init__
RegistryInit ==
    /\ plugins = <<>>
    /\ loaded_tables = <<>>
    /\ load_errors = {}
    /\ metadata = <<>>
    /\ ret = [kind |-> "none"]

\* PluginRegistry.register_plugin
register_plugin(name, deps, optional) ==
    /\ plugins' = DictSet(plugins, name, [deps |-> deps, optional |-> optional])
    /\ ret' = [kind |-> "none"]
    /\ UNCHANGED <<loaded_tables, load_errors, metadata>>

\* PluginRegistry.register_from_definition: DynamicTablePlugin(definition)
\* raises when a path of the definition cannot be imported; the error is
\* logged and kept in load_errors, and no plugin is registered
register_from_definition(definition) ==
    /\ definitions' = DictSet(definitions, definition.name, definition)
    /\ IF definition.importable
       THEN register_plugin(definition.name, definition.dependencies, definition.optional)
       ELSE /\ load_errors' = load_errors \cup {definition.name}
            /\ ret' = [kind |-> "none"]
            /\ UNCHANGED <<plugins, loaded_tables, metadata>>

\* (mutant) the in-degree counted on the dependency instead of on the dependent
InitialInDegreeOnDependency(all_tables) ==
    [t \in all_tables |-> Cardinality({o \in all_tables : t \in plugins[o].deps})]

\* in_degree as built by the first loop of _resolve_dependencies: the number
\* of dependencies of the table that are themselves registered
InitialInDegree(all_tables) ==
    [t \in all_tables |-> Cardinality(plugins[t].deps \cap all_tables)]

\* the inner "for other_table in all_tables" loop, from position i of the
\* iteration order on, after `table` was popped
RECURSIVE KahnInner(_, _, _, _, _)
KahnInner(order, i, table, queue, in_degree) ==
    IF i > Len(order) THEN [queue |-> queue, in_degree |-> in_degree]
    ELSE LET other_table == order[i] IN
         IF table \in plugins[other_table].deps
         THEN LET d == [in_degree EXCEPT ![other_table] = @ - 1] IN
              KahnInner(order, i + 1, table,
                        IF d[other_table] = 0 THEN Append(queue, other_table) ELSE queue,
                        d)
         ELSE KahnInner(order, i + 1, table, queue, in_degree)

\* the "while queue" loop
RECURSIVE KahnLoop(_, _, _, _)
KahnLoop(order, queue, result, in_degree) ==
    IF queue = <<>> THEN result
    ELSE LET table == Head(queue)
             step == KahnInner(order, 1, table, Tail(queue), in_degree)
         IN  KahnLoop(order, step.queue, Append(result, table), step.in_degree)

\* PluginRegistry._resolve_dependencies, `order` being the order in which the
\* set all_tables is iterated
ZeroInDegree(order, in_degree) ==
    LET Zero(t) == in_degree[t] = 0 IN SelectSeq(order, Zero)

\* (mutant) the error names only the first table left unprocessed
resolve_dependencies_names_one(order) ==
    LET all_tables == DOMAIN plugins
        in_degree  == InitialInDegree(all_tables)
        result     == KahnLoop(order, ZeroInDegree(order, in_degree), <<>>, in_degree)
        NotDone(t) == t \notin Range(result)
    IN  IF Len(result) # Cardinality(all_tables)
        THEN [kind |-> "ValueError", remaining |-> {Head(SelectSeq(order, NotDone))}]
        ELSE [kind |-> "order", order |-> result]

resolve_dependencies(order) ==
    LET all_tables == DOMAIN plugins
        in_degree  == InitialInDegree(all_tables)
        result     == KahnLoop(order, ZeroInDegree(order, in_degree), <<>>, in_degree)
    IN  IF Len(result) # Cardinality(all_tables)
        THEN [kind |-> "ValueError", remaining |-> all_tables \ Range(result)]
        ELSE [kind |-> "order", order |-> result]

\* a call of _resolve_dependencies on the registry
ResolveDependencies ==
    /\ \E order \in IterationOrders(DOMAIN plugins) :
          ret' = resolve_dependencies(order)
    /\ UNCHANGED <<plugins, loaded_tables, load_errors, metadata>>

\* one candidate file dbf_dir / (table_name + ext): whether it exists,
\* whether the plugin's loader raises on it, and the rows it returns if not
Missing == [exists |-> FALSE, raises |-> FALSE, rows |-> 0]
Raising == [exists |-> TRUE, raises |-> TRUE, rows |-> 0]
Rows(n) == [exists |-> TRUE, raises |-> FALSE, rows |-> n]

\* the file layouts of one table, one entry per extension tried
\* (extensions = [".DBF", ".dbf", ".txt", ".TXT"])
FileLayouts ==
    { <<Missing, Missing, Missing, Missing>>,
      <<Missing, Rows(1), Missing, Missing>>,
      <<Raising, Missing, Missing, Missing>> }

\* the list a loader returned: its length, and the extension tried when it
\* was read (0 for the empty list stored for a missing optional table)
Data(rows, ext) == [rows |-> rows, ext |-> ext]

\* the "for ext in extensions" loop of load_all_tables for one table, from
\* extension j on; st is the registry state so far
RECURSIVE LoadExtensions(_, _, _, _)
LoadExtensions(table_name, layout, j, st) ==
    IF j > Len(layout) THEN st
    ELSE IF ~layout[j].exists
         THEN LoadExtensions(table_name, layout, j + 1, st)
         ELSE IF ~layout[j].raises
              THEN [st EXCEPT
                      !.loaded_tables = DictSet(@, table_name, Data(layout[j].rows, j)),
                      !.metadata = DictSet(@, table_name,
                                     [path |-> j, count |-> layout[j].rows,
                                      optional |-> plugins[table_name].optional]),
                      !.loaded = TRUE]
              ELSE LET failed == [st EXCEPT !.load_errors = @ \cup {table_name}] IN
                   IF ~plugins[table_name].optional
                   THEN [failed EXCEPT !.raised = "DBFLoadError"]
                   ELSE LoadExtensions(table_name, layout, j + 1, failed)

\* one pass of the "for table_name in load_order" loop body
LoadTable(table_name, layout, st) ==
    LET after == LoadExtensions(table_name, layout, 1, [st EXCEPT !.loaded = FALSE]) IN
    IF after.raised # None \/ after.loaded THEN after
    ELSE IF plugins[table_name].optional
         THEN [after EXCEPT !.loaded_tables = DictSet(@, table_name, Data(0, 0))]
         ELSE [after EXCEPT !.raised = "FileNotFoundError"]

\* (mutant) a failing table is noted and the loop goes on to the next table
RECURSIVE LoadLoopGoesOn(_, _, _, _)
LoadLoopGoesOn(load_order, files, i, st) ==
    IF i > Len(load_order) THEN st
    ELSE LET after == LoadTable(load_order[i], files[load_order[i]],
                                [st EXCEPT !.raised = None])
         IN  LoadLoopGoesOn(load_order, files, i + 1,
                 IF st.raised # None
                 THEN [after EXCEPT !.raised = st.raised, !.table = st.table]
                 ELSE IF after.raised # None
                      THEN [after EXCEPT !.table = load_order[i]]
                      ELSE after)

\* the "for table_name in load_order" loop from position i on
RECURSIVE LoadLoop(_, _, _, _)
LoadLoop(load_order, files, i, st) ==
    IF i > Len(load_order) THEN st
    ELSE LET after == LoadTable(load_order[i], files[load_order[i]], st) IN
         IF after.raised # None
         THEN [after EXCEPT !.table = load_order[i]]
         ELSE LoadLoop(load_order, files, i + 1, after)

\* PluginRegistry.load_all_tables up to the "except ValueError: raise" of a
\* failed dependency resolution
load_all_tables_unresolved(resolved) ==
    /\ loaded_tables' = <<>>
    /\ load_errors' = {}
    /\ ret' = resolved
    /\ UNCHANGED <<plugins, metadata>>

\* PluginRegistry.load_all_tables with load_order as resolved; files[t] is
\* the layout of table t's candidate files in dbf_dir
load_all_tables(load_order, files) ==
    LET cleared == [loaded_tables |-> <<>>, load_errors |-> {},
                    metadata |-> metadata, loaded |-> FALSE,
                    raised |-> None, table |-> None]
        st == LoadLoop(load_order, files, 1, cleared)
    IN  /\ loaded_tables' = st.loaded_tables
        /\ load_errors' = st.load_errors
        /\ metadata' = st.metadata
        /\ ret' = IF st.raised # None
                  THEN [kind |-> st.raised, table |-> st.table, order |-> load_order]
                  ELSE [kind |-> "loaded", order |-> load_order]
        /\ UNCHANGED plugins

LoadAllTables ==
    \E resolved \in {resolve_dependencies(order) :
                        order \in IterationOrders(DOMAIN plugins)} :
        IF resolved.kind = "ValueError"
        THEN load_all_tables_unresolved(resolved)
        ELSE \E files \in [DOMAIN plugins -> FileLayouts] :
                load_all_tables(resolved.order, files)

\* registrations with the table name, the dependencies and the optional flag
\* drawn from the given sets
RegisterPlugin(Names, DepSets, Optionals) ==
    \E name \in Names, deps \in DepSets, optional \in Optionals :
        register_plugin(name, deps, optional)

\* Dependency resolution never reads is_optional: the plugins registered
\* here are all required, with every dependency set over the table names.
(***************************************************************************)
(* QueryEngine                                                             *)
(***************************************************************************)
\* TABLE_NAMES and TABLE_METADATA of registry.py, three of the tables:
\* 5EMPL and 5GRASG are required, 5USER is optional
TABLE_NAMES == <<"5EMPL", "5GRASG", "5USER">>

TABLE_METADATA == [name \in Range(TABLE_NAMES) |-> [optional |-> name = "5USER"]]

\* the records a loader returns for a file of n records
LoadedRecords(n) == [i \in 1..n |-> Employee(i)]

\* load_table(name, path) of registry.py
load_table(name, file) ==
    IF ~file.exists
    THEN IF TABLE_METADATA[name].optional
         THEN [kind |-> "records", records |-> <<>>]
         ELSE [kind |-> "FileNotFoundError", records |-> <<>>]
    ELSE IF file.raises
    THEN IF TABLE_METADATA[name].optional
         THEN [kind |-> "records", records |-> <<>>]
         ELSE [kind |-> "RuntimeError", records |-> <<>>]
    ELSE [kind |-> "records", records |-> LoadedRecords(file.rows)]

\* the "for ext in extensions" loop of _load_all_tables from extension j on:
\* an exception of load_table is logged and the next extension is tried
RECURSIVE EngineExtensions(_, _, _, _)
EngineExtensions(table_name, layout, j, tables) ==
    IF j > Len(layout) THEN tables
    ELSE IF ~layout[j].exists
    THEN EngineExtensions(table_name, layout, j + 1, tables)
    ELSE LET read == load_table(table_name, layout[j]) IN
         IF read.kind = "records"
         THEN DictSet(tables, table_name, read.records)
         ELSE EngineExtensions(table_name, layout, j + 1, tables)

\* the "for table_name in TABLE_NAMES" loop of _load_all_tables from table i
\* on; a table that was not loaded is only logged
RECURSIVE EngineLoadLoop(_, _, _)
EngineLoadLoop(files, i, tables) ==
    IF i > Len(TABLE_NAMES) THEN tables
    ELSE EngineLoadLoop(files, i + 1,
                        EngineExtensions(TABLE_NAMES[i], files[TABLE_NAMES[i]], 1, tables))

\* the file layouts of one table in dbf_dir
EngineLayouts == FileLayouts \cup {<<Raising, Rows(1), Missing, Missing>>}

\* a directory, and no engine yet
EngineInit ==
    /\ qe_files \in [Range(TABLE_NAMES) -> EngineLayouts]
    /\ qe_loaded_tables = <<>>
    /\ qe_engine = "none"

EngineIdle ==
    /\ qe_files = <<>>
    /\ qe_loaded_tables = <<>>
    /\ qe_engine = "idle"

\* QueryEngine(dbf_dir): _load_all_tables, then validate_relationships, whose
\* errors are only logged
QueryEngineInit ==
    /\ qe_engine = "none"
    /\ qe_loaded_tables' = EngineLoadLoop(qe_files, 1, <<>>)
    /\ qe_engine' = "constructed"
    /\ UNCHANGED qe_files

\* the added components idle
(***************************************************************************)
(* StreamingDBFReader                                                      *)
(***************************************************************************)
\* The source holds the records 0 .. _total_records - 1 in file order; a
\* record is known by its position.

\* _load_chunk(start, end): skips start records and reads end - start more,
\* stopping at the end of the file
load_chunk(start, end) ==
    LET last == IF end < st_total_records THEN end ELSE st_total_records
    IN  [i \in 1..(IF last > start THEN last - start ELSE 0) |-> start + i - 1]

\* deque(maxlen=max_cache_size).append(chunk): a full deque drops its first
\* chunk, a deque of length 0 stays empty
deque_append(cache, chunk) ==
    IF st_config.max_cache_size = 0 THEN cache
    ELSE IF Len(cache) >= st_config.max_cache_size THEN Append(Tail(cache), chunk)
    ELSE Append(cache, chunk)

\* the filter_func of a call: none, or one that keeps the even records
Passes(filter_func, record) == filter_func = "None" \/ record % 2 = 0

\* the loop of stream_records from chunk_start on: the records yielded, the
\* cache and its index, or the IndexError of self._chunk_cache[position]
RECURSIVE StreamLoop(_, _, _, _, _, _)
StreamLoop(chunk_start, end, filter_func, cache, index, yielded) ==
    IF chunk_start >= end
    THEN [kind |-> "records", records |-> yielded, cache |-> cache, index |-> index]
    ELSE LET chunk_end == IF chunk_start + st_config.chunk_size < end
                          THEN chunk_start + st_config.chunk_size ELSE end
             cache_key == <<chunk_start, chunk_end>>
             Keep(record) == Passes(filter_func, record)
         IN  IF st_config.cache_chunks /\ cache_key \in DOMAIN index
             THEN LET position == IF index[cache_key] < 0
                                  THEN Len(cache) + index[cache_key]
                                  ELSE index[cache_key]
                  IN  IF position < 0 \/ position >= Len(cache)
                      THEN [kind |-> "IndexError", records |-> yielded,
                            cache |-> cache, index |-> index]
                      ELSE StreamLoop(chunk_start + st_config.chunk_size, end,
                                      filter_func, cache, index,
                                      yielded \o SelectSeq(cache[position + 1], Keep))
             ELSE LET chunk == load_chunk(chunk_start, chunk_end)
                      appended == deque_append(cache, chunk)
                  IN  IF st_config.cache_chunks
                      THEN StreamLoop(chunk_start + st_config.chunk_size, end,
                                      filter_func, appended,
                                      DictSet(index, cache_key, Len(appended) - 1),
                                      yielded \o SelectSeq(chunk, Keep))
                      ELSE StreamLoop(chunk_start + st_config.chunk_size, end,
                                      filter_func, cache, index,
                                      yielded \o SelectSeq(chunk, Keep))

\* "end = min(end or self._total_records, self._total_records)"
StreamEnd(end) ==
    LET given == IF end.set /\ end.n # 0 THEN end.n ELSE st_total_records
    IN  IF given < st_total_records THEN given ELSE st_total_records

\* list(reader.stream_records(start, end, filter_func)) on the open reader
stream_records(start, end, filter_func) ==
    LET streamed == StreamLoop(start, StreamEnd(end), filter_func,
                               st_chunk_cache, st_cache_index, <<>>)
    IN  /\ st_chunk_cache' = streamed.cache
        /\ st_cache_index' = streamed.index
        /\ st_result' = [kind |-> streamed.kind, records |-> streamed.records,
                         start |-> start, end |-> StreamEnd(end),
                         filter_func |-> filter_func]
        /\ UNCHANGED <<st_config, st_total_records>>

\* StreamingDBFReader(path, config) opened on a source of up to MaxRecords records
StreamInit ==
    /\ st_config \in [chunk_size : 1..MaxRecords, max_cache_size : 0..MaxCacheSize,
                      cache_chunks : BOOLEAN]
    /\ st_total_records \in 0..MaxRecords
    /\ st_chunk_cache = <<>>
    /\ st_cache_index = <<>>
    /\ st_result = NoResult

StreamIdle ==
    /\ st_config = <<>>
    /\ st_total_records = 0
    /\ st_chunk_cache = <<>>
    /\ st_cache_index = <<>>
    /\ st_result = [kind |-> "idle"]

(***************************************************************************)
(* load_table and the loaders of the models                                *)
(***************************************************************************)
\* Employee.from_record(record): "id=int(record.get('ID', 0))" raises
\* TypeError for an ID of None (an empty numeric field)
from_record(record) ==
    LET id == IF "ID" \in DOMAIN record THEN record["ID"] ELSE IntValue(0)
    IN  IF id.type = "None" THEN [kind |-> "TypeError", record |-> <<>>]
        ELSE [kind |-> "Employee", record |-> Employee(id.n)]

\* load_employees: [Employee.from_record(record) for record in table.records()]
load_employees(raw) ==
    IF \E i \in DOMAIN raw : from_record(raw[i]).kind = "TypeError"
    THEN [kind |-> "TypeError", records |-> <<>>]
    ELSE [kind |-> "records", records |-> [i \in DOMAIN raw |-> from_record(raw[i]).record]]

\* load_table(name, path) on an existing file: the try around loader_func
load_table_records(name, raw) ==
    LET loaded == load_employees(raw)
    IN  IF loaded.kind = "records" THEN loaded
        ELSE IF TABLE_METADATA[name].optional
        THEN [kind |-> "records", records |-> <<>>]
        ELSE [kind |-> "RuntimeError", records |-> <<>>]

\* the records of a file: an ID of 1, of 2, or none
RawRecords == {[f \in {"ID"} |-> v] : v \in {IntValue(1), IntValue(2), NoneValue}}

DecodeInit ==
    /\ dc_name \in {"5EMPL", "5USER"}
    /\ dc_raw \in UNION {[1..n -> RawRecords] : n \in 0..MaxRecords}
    /\ dc_result = NoResult

DecodeIdle ==
    /\ dc_name = None
    /\ dc_raw = <<>>
    /\ dc_result = [kind |-> "idle"]

\* load_table(name, path) with the file at hand
LoadTableRecords ==
    /\ dc_result = NoResult
    /\ dc_result' = load_table_records(dc_name, dc_raw)
    /\ UNCHANGED <<dc_name, dc_raw>>

\* PluginRegistry.__init__: no definitions
NoDefinitions == definitions = <<>>

ValidateIdle ==
    /\ vr_loaded_tables = <<>>
    /\ vr_errors = [kind |-> "idle"]

PathIdle == jp_result = [kind |-> "idle"]

ExtraIdle ==
    EngineIdle /\ StreamIdle /\ DecodeIdle /\ NoDefinitions /\ ValidateIdle /\ PathIdle

(***************************************************************************)
(* Specifications: each one drives one component and leaves the others     *)
(* idle.                                                                   *)
(***************************************************************************)
LoadNames == 1..NumLoadTables

\* nothing has been loaded or resolved since the last registration
NeverLoaded == ret.kind = "none" /\ metadata = <<>>

notRegVars == <<filterVars, relVars, queryVars, resolveVars, idxVars, resVars, extraVars>>

RegistryNext ==
    \/ RegisterPlugin(TableNames, SUBSET TableNames, {FALSE}) /\ UNCHANGED notRegVars
    \/ ResolveDependencies /\ UNCHANGED notRegVars

RegistrySpecInit ==
    /\ RegistryInit /\ FilterIdle /\ RelationshipManagerInit /\ QueryIdle
    /\ ResolveIdle /\ IndexIdle /\ ResolverIdle /\ ExtraIdle

SpecRegistry == RegistrySpecInit /\ [][RegistryNext]_vars

\* The load loop reads the dependencies only through the resolved order: the
\* plugins registered here depend on nothing or on the first table (table 1
\* depending on itself is a cycle), and any of them may be optional. The
\* catalog is registered before the first load and loaded any number of
\* times afterwards.
LoadNext ==
    \/ NeverLoaded /\ RegisterPlugin(LoadNames, {{}, {1}}, BOOLEAN) /\ UNCHANGED notRegVars
    \/ LoadAllTables /\ UNCHANGED notRegVars

LoadSpecInit ==
    /\ RegistryInit /\ FilterIdle /\ RelationshipManagerInit /\ QueryIdle
    /\ ResolveIdle /\ IndexIdle /\ ResolverIdle /\ ExtraIdle

SpecLoad == LoadSpecInit /\ [][LoadNext]_vars

notFilterVars == <<regVars, relVars, queryVars, resolveVars, idxVars, resVars, extraVars>>

FilterNext == Apply /\ UNCHANGED notFilterVars

FilterSpecInit ==
    /\ RegistryInit /\ FilterInit /\ RelationshipManagerInit /\ QueryIdle
    /\ ResolveIdle /\ IndexIdle /\ ResolverIdle /\ ExtraIdle

SpecFilter == FilterSpecInit /\ [][FilterNext]_vars

notQueryVars == <<regVars, filterVars, relVars, resolveVars, idxVars, resVars, extraVars>>

\* A query is built by any calls in any order and executed once: a table is
\* selected, each field is filtered at most once, at most one table is
\* joined (5GROUP is not loaded), and with_relations is not called.
QueryNext ==
    \/ \E table \in {"5EMPL", "5GRASG", "5GROUP"} : select(table, NoneValue) /\ UNCHANGED notQueryVars
    \/ \E field \in {"id", "employee_id"} :
          /\ \A i \in DOMAIN q_filters : q_filters[i].field # field
          /\ where(field, "=", IntValue(1))
          /\ UNCHANGED notQueryVars
    \/ \E table \in {"5EMPL", "5GROUP"} :
          q_joins = <<>> /\ join(table) /\ UNCHANGED notQueryVars
    \/ \E o \in {<<"employee_id", TRUE>>, <<"employee_id", FALSE>>, <<"id", FALSE>>} :
          order_by(o[1], o[2]) /\ UNCHANGED notQueryVars
    \/ \E n \in 0..MaxLimit : limit(n) /\ UNCHANGED notQueryVars
    \/ \E n \in 0..MaxLimit : offset(n) /\ UNCHANGED notQueryVars
    \/ execute /\ UNCHANGED notQueryVars

QuerySpecInit ==
    /\ RegistryInit /\ FilterIdle /\ RelationshipManagerInit /\ QueryInit
    /\ ResolveIdle /\ IndexIdle /\ ResolverIdle /\ ExtraIdle

SpecQuery == QuerySpecInit /\ [][QueryNext]_vars

\* the loaded tables of an enriched query: employees and employee shifts
RelationSnapshots ==
    {[t \in {"5EMPL", "5MASHI"} |->
        IF t = "5EMPL"
        THEN [i \in DOMAIN ids |-> Employee(ids[i])]
        ELSE [i \in DOMAIN fks |-> GroupAssignment(i, fks[i])]] :
     ids \in UNION {IterationOrders(S) : S \in SUBSET Ids},
     fks \in UNION {[1..n -> Ids] : n \in 0..MaxRows}}

\* A query is built from select, where, join and with_relations in any order
\* and executed once: at most one filter and one join (5GROUP is not loaded).
RelationsNext ==
    \/ \E table \in {"5EMPL", "5MASHI", "5GROUP"}, fields \in {NoneValue, ListValue({"id"})} :
          select(table, fields) /\ UNCHANGED notQueryVars
    \/ q_filters = <<>> /\ where("id", "=", IntValue(1)) /\ UNCHANGED notQueryVars
    \/ \E table \in {"5EMPL", "5MASHI", "5GROUP"} :
          q_joins = <<>> /\ join(table) /\ UNCHANGED notQueryVars
    \/ \E depth \in 0..MaxDepth : with_relations(depth) /\ UNCHANGED notQueryVars
    \/ execute /\ UNCHANGED notQueryVars

RelationsSpecInit ==
    /\ RegistryInit /\ FilterIdle /\ RelationshipManagerInit
    /\ q_loaded_tables \in RelationSnapshots /\ NewQuery
    /\ ResolveIdle /\ IndexIdle /\ ResolverIdle /\ ExtraIdle

SpecRelations == RelationsSpecInit /\ [][RelationsNext]_vars

notResolveVars == <<regVars, filterVars, relVars, queryVars, idxVars, resVars, extraVars>>

ResolveNext ==
    \/ ResolveForward /\ UNCHANGED notResolveVars
    \/ ResolveReverse /\ UNCHANGED notResolveVars

ResolveSpecInit ==
    /\ RegistryInit /\ FilterIdle /\ RelationshipManagerInit /\ QueryInit
    /\ ResolveInit /\ IndexIdle /\ ResolverIdle /\ ExtraIdle

SpecResolve == ResolveSpecInit /\ [][ResolveNext]_vars

notIndexVars == <<regVars, filterVars, relVars, queryVars, resolveVars, resVars, extraVars>>

IndexNext ==
    \/ \E records \in GroupAssignments, rel_type \in RelationType :
          BuildIndex("5GRASG", records, "employee_id", rel_type) /\ UNCHANGED notIndexVars
    \/ \E id \in Ids, rel_type \in RelationType :
          Lookup("5GRASG", IntValue(id), rel_type) /\ UNCHANGED notIndexVars

IndexSpecInit ==
    /\ RegistryInit /\ FilterIdle /\ RelationshipManagerInit /\ QueryIdle
    /\ ResolveIdle /\ IndexInit /\ ResolverIdle /\ ExtraIdle

SpecIndex == IndexSpecInit /\ [][IndexNext]_vars

notResolverVars == <<regVars, filterVars, relVars, queryVars, resolveVars, extraVars>>

ResolverNext ==
    \/ \E tables \in ResolverTables :
          build_data_indexes(tables) /\ UNCHANGED notResolverVars
    \/ \E i \in DOMAIN Employees :
          resolve_relationship(Employees[i], "5EMPL", "5GRASG") /\ UNCHANGED notResolverVars
    \/ \E id \in Ids :
          resolver_lookup("5GRASG", IntValue(id), ONE_TO_MANY) /\ UNCHANGED notResolverVars

ResolverSpecInit ==
    /\ RegistryInit /\ FilterIdle /\ RelationshipManagerInit /\ QueryIdle
    /\ ResolveIdle /\ IndexIdle /\ ResolverInit /\ ExtraIdle

SpecResolver == ResolverSpecInit /\ [][ResolverNext]_vars

notEngineVars == <<regVars, filterVars, relVars, queryVars, resolveVars, idxVars, resVars, streamVars, decodeVars, defVars, validateVars, pathVars>>

EngineNext == QueryEngineInit /\ UNCHANGED notEngineVars

EngineSpecInit ==
    /\ RegistryInit /\ FilterIdle /\ RelationshipManagerInit /\ QueryIdle
    /\ ResolveIdle /\ IndexIdle /\ ResolverIdle
    /\ EngineInit /\ StreamIdle /\ DecodeIdle /\ NoDefinitions /\ ValidateIdle /\ PathIdle

SpecEngine == EngineSpecInit /\ [][EngineNext]_vars

\* The snapshot is built once and then only read: relationships are
\* resolved and looked up, and all relationships of an employee are resolved
\* one or two levels deep.
ReadsNext ==
    \/ \E tables \in ResolverTables :
          /\ res_loaded_tables = <<>>
          /\ build_data_indexes(tables)
          /\ UNCHANGED notResolverVars
    \/ \E i \in DOMAIN Employees :
          /\ res_loaded_tables # <<>>
          /\ resolve_relationship(Employees[i], "5EMPL", "5GRASG")
          /\ UNCHANGED notResolverVars
    \/ \E id \in Ids :
          /\ res_loaded_tables # <<>>
          /\ resolver_lookup("5GRASG", IntValue(id), ONE_TO_MANY)
          /\ UNCHANGED notResolverVars
    \/ \E i \in DOMAIN Employees, max_depth \in {1, 2} :
          /\ res_loaded_tables # <<>>
          /\ ResolveAllRelationships(Employees[i], "5EMPL", max_depth)
          /\ UNCHANGED notResolverVars

ReadsSpecInit ==
    /\ RegistryInit /\ FilterIdle /\ RelationshipManagerInit /\ QueryIdle
    /\ ResolveIdle /\ IndexIdle /\ ChainResolverInit /\ ExtraIdle

SpecReads == ReadsSpecInit /\ [][ReadsNext]_vars

notStreamVars == <<regVars, filterVars, relVars, queryVars, resolveVars, idxVars, resVars, engineVars, decodeVars, defVars, validateVars, pathVars>>

\* The open reader streams any range, with or without a filter, any number
\* of times.
StreamNext ==
    \E start \in 0..MaxRecords, end \in {NotSet} \cup {SetTo(n) : n \in 0..MaxRecords}, filter_func \in {"None", "even"} :
        stream_records(start, end, filter_func) /\ UNCHANGED notStreamVars

StreamSpecInit ==
    /\ RegistryInit /\ FilterIdle /\ RelationshipManagerInit /\ QueryIdle
    /\ ResolveIdle /\ IndexIdle /\ ResolverIdle
    /\ EngineIdle /\ StreamInit /\ DecodeIdle /\ NoDefinitions /\ ValidateIdle /\ PathIdle

SpecStream == StreamSpecInit /\ [][StreamNext]_vars

notDecodeVars == <<regVars, filterVars, relVars, queryVars, resolveVars, idxVars, resVars, engineVars, streamVars, defVars, validateVars, pathVars>>

DecodeNext == LoadTableRecords /\ UNCHANGED notDecodeVars

DecodeSpecInit ==
    /\ RegistryInit /\ FilterIdle /\ RelationshipManagerInit /\ QueryIdle
    /\ ResolveIdle /\ IndexIdle /\ ResolverIdle
    /\ EngineIdle /\ StreamIdle /\ DecodeInit /\ NoDefinitions /\ ValidateIdle /\ PathIdle

SpecDecode == DecodeSpecInit /\ [][DecodeNext]_vars

notRelVars == <<regVars, filterVars, queryVars, resolveVars, idxVars, resVars, extraVars>>

\* Relationships from 5EMPL or 5GROUP to 5NOTE or 5BOOK are added to the
\* manager in any order.
ManagerNext ==
    \E source \in {"5EMPL", "5GROUP"}, target \in {"5NOTE", "5BOOK"}, rel_type \in {ONE_TO_ONE, ONE_TO_MANY} :
        /\ add_relationship(TableRelationship(source, "id", target, "owner_id", rel_type))
        /\ UNCHANGED notRelVars

ManagerSpecInit ==
    /\ RegistryInit /\ FilterIdle /\ RelationshipManagerInit /\ QueryIdle
    /\ ResolveIdle /\ IndexIdle /\ ResolverIdle /\ ExtraIdle

SpecManager == ManagerSpecInit /\ [][ManagerNext]_vars

notDefinitionVars == <<filterVars, relVars, queryVars, resolveVars, idxVars, resVars, engineVars, streamVars, decodeVars, validateVars, pathVars>>

\* Plugins without dependencies and table definitions, importable or not,
\* are registered in any order, and the load order is resolved at any time.
DefinitionsNext ==
    \/ /\ RegisterPlugin(TableNames, {{}}, {FALSE})
       /\ UNCHANGED <<definitions, notDefinitionVars>>
    \/ \E name \in TableNames, deps \in {{}, {1}}, importable \in BOOLEAN :
          /\ register_from_definition([name |-> name, dependencies |-> deps,
                                       optional |-> FALSE, importable |-> importable])
          /\ UNCHANGED notDefinitionVars
    \/ ResolveDependencies /\ UNCHANGED <<definitions, notDefinitionVars>>

DefinitionsSpecInit ==
    /\ RegistryInit /\ FilterIdle /\ RelationshipManagerInit /\ QueryIdle
    /\ ResolveIdle /\ IndexIdle /\ ResolverIdle /\ ExtraIdle

SpecDefinitions == DefinitionsSpecInit /\ [][DefinitionsNext]_vars

notValidateVars == <<regVars, filterVars, relVars, queryVars, resolveVars, idxVars, resVars, engineVars, streamVars, decodeVars, defVars, pathVars>>

\* validate_relationships is called on a snapshot of the employees with the
\* group assignments or with the employee shifts.
ValidateNext == validate_relationships /\ UNCHANGED notValidateVars

ValidateSpecInit ==
    /\ RegistryInit /\ FilterIdle /\ RelationshipManagerInit /\ QueryIdle
    /\ ResolveIdle /\ IndexIdle /\ ResolverIdle
    /\ EngineIdle /\ StreamIdle /\ DecodeIdle /\ NoDefinitions /\ PathIdle
    /\ vr_loaded_tables \in Snapshots \cup RelationSnapshots
    /\ vr_errors = NoResult

SpecValidate == ValidateSpecInit /\ [][ValidateNext]_vars

\* Schemas are added to a new resolver one by one, the indexes are built
\* once from the tables, and employees and groups are resolved to their
\* group assignments before and after.
SchemasNext ==
    \/ \E i \in DOMAIN GroupSchemas :
          /\ GroupSchemas[i] \notin schemas
          /\ add_schema(GroupSchemas[i])
          /\ UNCHANGED notResolverVars
    \/ \E tables \in GroupTables :
          /\ res_loaded_tables = <<>>
          /\ build_data_indexes(tables)
          /\ UNCHANGED notResolverVars
    \/ \E i \in DOMAIN Employees :
          resolve_relationship(Employees[i], "5EMPL", "5GRASG") /\ UNCHANGED notResolverVars
    \/ \E i \in DOMAIN Groups :
          resolve_relationship(Groups[i], "5GROUP", "5GRASG") /\ UNCHANGED notResolverVars

SchemasSpecInit ==
    /\ RegistryInit /\ FilterIdle /\ RelationshipManagerInit /\ QueryIdle
    /\ ResolveIdle /\ IndexIdle /\ NewResolver /\ ExtraIdle

SpecSchemas == SchemasSpecInit /\ [][SchemasNext]_vars

\* A resolver with a small cache and both schemas of 5GRASG: the indexes
\* are built once, and employees and groups are resolved again and again.
CacheNext ==
    \/ \E tables \in GroupTables :
          /\ res_loaded_tables = <<>>
          /\ build_data_indexes(tables)
          /\ UNCHANGED notResolverVars
    \/ \E i \in DOMAIN Employees :
          resolve_relationship(Employees[i], "5EMPL", "5GRASG") /\ UNCHANGED notResolverVars
    \/ \E i \in DOMAIN Groups :
          resolve_relationship(Groups[i], "5GROUP", "5GRASG") /\ UNCHANGED notResolverVars

CacheSpecInit ==
    /\ RegistryInit /\ FilterIdle /\ RelationshipManagerInit /\ QueryIdle
    /\ ResolveIdle /\ IndexIdle /\ SmallCacheResolver /\ ExtraIdle

SpecCache == CacheSpecInit /\ [][CacheNext]_vars

notPathVars == <<regVars, filterVars, queryVars, resolveVars, idxVars, resVars, engineVars, streamVars, decodeVars, defVars, validateVars>>

PathTables == {"5EMPL", "5GROUP", "5GRASG", "5CYCLE", "5CYASS", "5CYEXC", "5NOTE"}

\* A join path is asked for between two tables of the manager as it was
\* constructed or as an addition left it, and relationships from 5EMPL or
\* 5CYCLE to 5NOTE are added in between.
PathNext ==
    \/ \E from_table \in PathTables, to_table \in PathTables, max_depth \in 0..(MaxDepth + 1) :
          /\ jp_result = NoResult
          /\ GetJoinPath(from_table, to_table, max_depth)
          /\ UNCHANGED notPathVars
    \/ \E source \in {"5EMPL", "5CYCLE"} :
          /\ add_relationship(TableRelationship(source, "ID", "5NOTE", "OWNERID", ONE_TO_MANY))
          /\ jp_result' = NoResult
          /\ UNCHANGED notPathVars

PathSpecInit ==
    /\ RegistryInit /\ FilterIdle /\ UpdatedManagerInit /\ QueryIdle
    /\ ResolveIdle /\ IndexIdle /\ ResolverIdle
    /\ EngineIdle /\ StreamIdle /\ DecodeIdle /\ NoDefinitions /\ ValidateIdle
    /\ jp_result = NoResult

SpecPaths == PathSpecInit /\ [][PathNext]_vars

(***************************************************************************)
(* Properties of the registry.                                             *)
(***************************************************************************)

\* the registered dependencies of a registered table
RegisteredDeps(t) == plugins[t].deps \cap DOMAIN plugins

RECURSIVE DepClosure(_)
DepClosure(S) ==
    LET more == S \cup UNION {RegisteredDeps(x) : x \in S}
    IN  IF more = S THEN S ELSE DepClosure(more)

\* the tables t depends on, directly or through other registered tables
TransitiveDeps(t) == DepClosure(RegisteredDeps(t))

\* the members of dependency cycles
CycleMembers == {t \in DOMAIN plugins : t \in TransitiveDeps(t)}

Resolved == ret.kind \in {"order", "ValueError"}

\* C1: when the dependency graph over the registered tables is acyclic,
\* _resolve_dependencies returns an order of all the registered tables in
\* which every registered dependency D of a table T has a smaller index than T.
C1_DependenciesFirst ==
    (Resolved /\ CycleMembers = {}) =>
        /\ ret.kind = "order"
        /\ Len(ret.order) = Cardinality(DOMAIN plugins)
        /\ Range(ret.order) = DOMAIN plugins
        /\ \A T \in DOMAIN plugins : \A D \in RegisteredDeps(T) :
              IndexOf(ret.order, D) < IndexOf(ret.order, T)

\* C1 witness: an order was returned for a chain D -> E under a table T that
\* depends on both of them
C1_Witness ==
    /\ ret.kind = "order"
    /\ \E T, D, E \in DOMAIN plugins :
          /\ Cardinality({T, D, E}) = 3
          /\ {D, E} \subseteq plugins[T].deps
          /\ E \in plugins[D].deps

\* C2: when the dependency graph contains a cycle (a table depending on itself
\* included), _resolve_dependencies raises the circular-dependency ValueError,
\* and the tables it names include every member of a cycle.
C2_CycleNamesAllMembers ==
    (Resolved /\ CycleMembers # {}) =>
        /\ ret.kind = "ValueError"
        /\ CycleMembers \subseteq ret.remaining

\* C2 witness: the error was raised for a cycle through two tables, with a
\* third table resolved outside of it
C2_Witness ==
    /\ ret.kind = "ValueError"
    /\ Cardinality(CycleMembers) >= 2
    /\ DOMAIN plugins \ ret.remaining # {}

\* the tables after position of `table` in the load order
LaterTables(order, table) ==
    {order[i] : i \in {j \in DOMAIN order : j > IndexOf(order, table)}}

LoadRaised == ret.kind \in {"DBFLoadError", "FileNotFoundError"}

\* C10: load_all_tables returns normally only if every required table was read
\* from a file without its loader raising; when a required table has no file
\* or its loader raises, the call raises and no table later in the load order
\* is loaded.
C10_RequiredFailureAborts ==
    /\ ret.kind = "loaded" =>
          \A t \in DOMAIN plugins :
             ~plugins[t].optional =>
                /\ t \in DOMAIN loaded_tables
                /\ loaded_tables[t].ext # 0
                /\ t \notin load_errors
    /\ LoadRaised =>
          /\ ~plugins[ret.table].optional
          /\ ret.table \notin DOMAIN loaded_tables
          /\ \A t \in LaterTables(ret.order, ret.table) : t \notin DOMAIN loaded_tables

\* C10 witness: a required table's loader raised with another table still to
\* come in the load order
C10_Witness ==
    /\ ret.kind = "DBFLoadError"
    /\ LaterTables(ret.order, ret.table) # {}

\* C11: after load_all_tables, an optional table that was not read from any
\* file (its source is missing, or every loader call raised) is loaded with
\* no rows and has a warning in load_errors (metadata holds entries of
\* tables read from a file only), and the tables after it in the load order
\* were processed as well.
C11_OptionalFailureRecorded ==
    ret.kind = "loaded" =>
        \A t \in DOMAIN plugins :
            (plugins[t].optional /\ loaded_tables[t].ext = 0) =>
                /\ loaded_tables[t].rows = 0
                /\ t \in load_errors
                /\ \A u \in LaterTables(ret.order, t) : u \in DOMAIN loaded_tables

(***************************************************************************)
(* Properties of Filter.                                                   *)
(***************************************************************************)

\* the record with its "name" in lower case, and the filter with its operand
\* in upper case
LowerRecord(record) ==
    [f \in DOMAIN record |->
        IF record[f].type = "str" THEN StrValue(Lower(record[f].s)) ELSE record[f]]

UpperChar(c) == CASE c = "a" -> "A" [] c = "n" -> "N" [] OTHER -> c

UpperOperand(filter) ==
    IF filter.value.type = "str"
    THEN [filter EXCEPT !.value = StrValue([i \in DOMAIN filter.value.s |->
                                               UpperChar(filter.value.s[i])])]
    ELSE filter

Outcome(b) == IF b THEN "True" ELSE "False"

\* C9: on a record without the filtered field, Filter.apply matches for
\* IS_NULL and for no other operator (NOT_EQUALS, NOT_IN and IS_NOT_NULL
\* included); IS_NULL does not match a field holding the empty string; and
\* CONTAINS, STARTS_WITH and ENDS_WITH give the same answer whatever the case
\* of the field and of the operand.
C9_FilterSemantics ==
    f_result \notin {"none", "idle"} =>
        /\ "name" \notin DOMAIN f_record =>
              f_result = Outcome(f_filter.operator = "is_null")
        /\ (GetAttr(f_record, "name") = StrValue(<<>>) /\ f_filter.operator = "is_null") =>
              f_result = "False"
        /\ f_filter.operator \in {"contains", "starts_with", "ends_with"} =>
              f_result = Outcome(FilterApply(UpperOperand(f_filter), LowerRecord(f_record)))

\* C9 witness: NOT_EQUALS was applied to a record without the field
C9_Witness ==
    /\ f_result = "False"
    /\ "name" \notin DOMAIN f_record
    /\ f_filter.operator = "!="

(***************************************************************************)
(* Properties of Query and of RelationshipManager.resolve_reference.       *)
(***************************************************************************)

\* C3: when a limit >= 0 was set, execute returns at most that many rows, and
\* the rows returned are the slice [offset : offset + limit] of the scanned,
\* filtered, joined and sorted list.
C3_ExecuteReturnsSlice ==
    (q_result.kind = "records" /\ q_limit.set) =>
        /\ Len(q_result.records) <= q_limit.n
        /\ q_result.records = Slice(Ordered.records, q_offset, q_offset + q_limit.n)

\* the parent rows whose key equals the foreign key of a child row
ParentsOf(child) ==
    RecordsWith(q_loaded_tables["5EMPL"], "id", GetAttr(child, "employee_id"))

\* C4: a query that selects the child table 5GRASG and joins the parent table
\* 5EMPL (declared only as 5EMPL.id -> 5GRASG.employee_id, ONE_TO_MANY) gives
\* each result row, under "5EMPL", exactly the employees whose id equals the
\* row's employee_id.
C4_ChildJoinsParent ==
    (q_result.kind = "records" /\ q_from_table = "5GRASG" /\ q_joins = <<"5EMPL">>) =>
        \A i \in DOMAIN q_result.records :
            LET row == q_result.records[i] IN
            ParentsOf(row["_entity"]) # <<>> =>
                /\ "5EMPL" \in DOMAIN row["_relations"]
                /\ row["_relations"]["5EMPL"] = ParentsOf(row["_entity"])

\* C5: for the relationship declared from 5EMPL (A) to 5GRASG (B) only, the
\* pairs resolve_reference(B rows, B, A, A rows) matches are the pairs
\* resolve_reference(A rows, A, B, B rows) matches, with the two positions
\* swapped.
C5_ResolveReferenceSymmetric ==
    (rr_forward.kind = "matches" /\ rr_reverse.kind = "matches") =>
        Range(rr_reverse.matches) =
            {<<pair[2], pair[1]>> : pair \in Range(rr_forward.matches)}

(***************************************************************************)
(* Properties of RelationshipIndex and RelationshipResolver.               *)
(***************************************************************************)

\* C6: a lookup under ONE_TO_ONE never returns more than one record, and a
\* lookup under ONE_TO_MANY, MANY_TO_ONE or MANY_TO_MANY always returns a
\* list, the empty list when the key has no records.
C6_LookupCardinality ==
    idx_result.kind = "lookup" =>
        IF idx_result.rel_type = ONE_TO_ONE
        THEN Len(idx_result.result.rows) <= 1
        ELSE idx_result.result.kind = "list"

\* C7: once the indexes were rebuilt from reloaded tables, neither lookup nor
\* resolve_relationship returns a record that the tables of the last build
\* do not hold.
C7_NoStaleRows ==
    (res_result.kind \in {"lookup", "resolved"} /\ res_loaded_tables # <<>>) =>
        \A i \in DOMAIN res_result.result.rows :
            res_result.result.rows[i] \in Range(res_loaded_tables["5GRASG"])

\* C8: after build_index ran twice in a row with the same table, records,
\* field and cardinality, lookup returns for every key and cardinality what
\* it returned after the first of the two runs.
C8_BuildTwiceSameLookups ==
    idx_build.count = 2 =>
        \A id \in Ids, rel_type \in RelationType :
            lookup(idx_indexes, idx_build.args[1], IntValue(id), rel_type)
                = lookup(idx_build.once, idx_build.args[1], IntValue(id), rel_type)

\* C8 witness: an index of two records under one key was built twice
C8_Witness ==
    /\ idx_build.count = 2
    /\ Len(idx_build.args[2]) >= 2
    /\ lookup(idx_indexes, "5GRASG", IntValue(1), ONE_TO_MANY) \notin
           {NoneResult, List(<<>>)}

\* C17: a lookup in a table that has an index returns None for a key the
\* index does not hold, and a lookup in a table no index was built for
\* returns no value at all but signals an error.
C17_LookupSignalsNoIndex ==
    idx_result.kind = "lookup" =>
        LET of_table == {i \in DOMAIN idx_indexes :
                            idx_indexes[i].key[1] = idx_result.table_name}
        IN  IF of_table # {}
            THEN (\A i \in of_table : idx_result.key \notin DOMAIN idx_indexes[i].index)
                     => idx_result.result \in {NoneResult, List(<<>>)}
            ELSE idx_result.result.kind \notin {"None", "record", "list"}

\* C19: after the build, whatever was read since, every lookup returns the
\* rows it returns on indexes freshly built from the same tables.
C19_ReadsLeaveIndexRows ==
    res_loaded_tables # <<>> =>
        \E order \in IterationOrders(schemas) :
            \A t \in DOMAIN res_loaded_tables, id \in Ids :
                lookup(idx_indexes, t, IntValue(id), ONE_TO_MANY)
                    = lookup(BuildDataLoop(order, 1, res_loaded_tables, <<>>), t,
                             IntValue(id), ONE_TO_MANY)

(***************************************************************************)
(* Properties of QueryEngine.                                              *)
(***************************************************************************)

\* no file of the table exists / no file of it can be read
SourceMissing(t) == \A j \in DOMAIN qe_files[t] : ~qe_files[t][j].exists

SourceFails(t) ==
    \A j \in DOMAIN qe_files[t] : qe_files[t][j].exists => qe_files[t][j].raises

\* C12: QueryEngine(dbf_dir) does not return an engine when a required
\* table's source is missing or fails to load, so a constructed engine holds
\* every required table; and an optional table whose source is missing is in
\* the snapshot of a constructed engine with no rows.
C12_EngineHasRequiredTables ==
    qe_engine = "constructed" =>
        \A i \in DOMAIN TABLE_NAMES :
            LET t == TABLE_NAMES[i] IN
            IF TABLE_METADATA[t].optional
            THEN SourceMissing(t) =>
                    (t \in DOMAIN qe_loaded_tables /\ qe_loaded_tables[t] = <<>>)
            ELSE ~SourceFails(t) /\ t \in DOMAIN qe_loaded_tables


\* C24: a resolved load order contains the table of every definition that
\* was passed to register_from_definition.
C24_DefinitionsInLoadOrder ==
    ret.kind = "order" => \A name \in DOMAIN definitions : name \in Range(ret.order)

\* C16: a registration never replaces the entry of a name that is already
\* registered: every registered plugin stays as it was registered.
C16_RegisteredEntryStays ==
    [][\A t \in DOMAIN plugins : t \in DOMAIN plugins' /\ plugins'[t] = plugins[t]]_vars

\* C23: every relationship of the manager is returned for its source table
\* and for its target table, and nothing else is returned.
C23_AddedRelationshipsIndexed ==
    /\ \A rel \in relationships :
          /\ rel \in get_relationships_from(rel.source_table)
          /\ rel \in get_relationships_to(rel.target_table)
    /\ \A k \in DOMAIN rel_index : rel_index[k] \subseteq relationships

\* the rows of the loaded tables carry the key fields of the relationships
\* between loaded tables
CarriesKeyFields(tables) ==
    \A rel \in relationships :
        (rel.source_table \in DOMAIN tables /\ rel.target_table \in DOMAIN tables) =>
            /\ \A i \in DOMAIN tables[rel.source_table] :
                  rel.source_field \in DOMAIN tables[rel.source_table][i]
            /\ \A i \in DOMAIN tables[rel.target_table] :
                  rel.target_field \in DOMAIN tables[rel.target_table][i]

\* C25: validate_relationships returns no error for a snapshot whose rows
\* carry the key fields, also when only some of the tables are loaded.
C25_ValidSnapshotNoErrors ==
    (vr_errors.kind = "errors" /\ CarriesKeyFields(vr_loaded_tables)) =>
        vr_errors.errors = <<>>

(***************************************************************************)
(* Properties of the query plan and of enrichment                          *)
(***************************************************************************)
\* C13: a query on which both join and with_relations(depth > 0) were
\* called is rejected: the plan never holds both without an error raised.
C13_JoinWithRelationsRejected ==
    (q_joins # <<>> /\ q_enrich_depth > 0) => q_result.kind \notin {"none", "records"}

\* the joined table has a relationship with the source table in a direction
Related(source_table, join_table) ==
    \E rel \in relationships :
        \/ rel.source_table = source_table /\ rel.target_table = join_table
        \/ rel.source_table = join_table /\ rel.target_table = source_table

\* C14: executing a query that joins a table with no relationship to the
\* source table never returns records, whatever the snapshot and the filters.
C14_UnrelatedJoinFails ==
    (q_result.kind = "records" /\ q_from_table # None) =>
        \A i \in DOMAIN q_joins : Related(q_from_table, q_joins[i])

RECURSIVE RelationTables(_)
RelationTables(enriched) ==
    LET rels == enriched["_relations"]
    IN  DOMAIN rels \cup
        UNION {UNION {IF "_entity" \in DOMAIN rels[t].rows[j]
                      THEN RelationTables(rels[t].rows[j]) ELSE {} :
                      j \in DOMAIN rels[t].rows} : t \in DOMAIN rels}

\* C18: the table of an enriched row never reappears in the relation maps
\* nested below the row.
C18_EnrichmentCycleSafe ==
    (q_result.kind = "records" /\ q_joins = <<>> /\ q_enrich_depth > 0) =>
        \A i \in DOMAIN q_result.records :
            q_from_table \notin RelationTables(q_result.records[i])

(***************************************************************************)
(* Properties of StreamingDBFReader.                                       *)
(***************************************************************************)
\* C20: every stream of a range yields the records of the source in that
\* range that pass the filter, in file order, however many chunks were
\* streamed before.
C20_StreamYieldsTheRange ==
    st_result.kind \notin {"none", "idle"} =>
        /\ st_result.kind = "records"
        /\ LET Keep(record) == Passes(st_result.filter_func, record)
           IN  st_result.records
                   = SelectSeq(load_chunk(st_result.start, st_result.end), Keep)

\* C21: the chunk cache never holds more than max_cache_size entries,
\* neither in the stored chunks nor in the index of their keys.
C21_ChunkCacheBounded ==
    st_result.kind # "idle" =>
        /\ Len(st_chunk_cache) <= st_config.max_cache_size
        /\ Cardinality(DOMAIN st_cache_index) <= st_config.max_cache_size

(***************************************************************************)
(* Properties of load_table.                                               *)
(***************************************************************************)
\* C22: when some record of the file decodes, load_table returns, and it
\* returns one row for each record that decodes: the failing records are
\* skipped and the load fails only when no record decodes.
C22_FailingRecordsSkipped ==
    LET decoded == {i \in DOMAIN dc_raw : from_record(dc_raw[i]).kind = "Employee"}
    IN  (dc_result.kind \notin {"none", "idle"} /\ decoded # {}) =>
            /\ dc_result.kind = "records"
            /\ Len(dc_result.records) = Cardinality(decoded)

(***************************************************************************)
(* Properties of the resolver's schemas and cache.                         *)
(***************************************************************************)
\* every schema of the resolver has its index, built from the tables of
\* the last build_data_indexes
AllSchemasIndexed ==
    /\ res_loaded_tables # <<>>
    /\ \A schema \in schemas :
          IndexPosition(idx_indexes, <<schema.target_table, schema.target_field>>) # 0

\* C26: once the indexes of all schemas are built, resolve_relationship
\* returns exactly the rows of the target table whose target field holds
\* the value of the entity's source field, also when the target table is the
\* target of two schemas keyed on different fields.
C26_ResolvesOnOwnTargetField ==
    (/\ res_result.kind = "resolved"
     /\ ~res_result.hit
     /\ res_result.found # <<>>
     /\ AllSchemasIndexed) =>
        res_result.result.rows
            = RecordsWith(res_loaded_tables[res_result.target_table],
                          res_result.found[1].target_field,
                          GetAttr(res_result.entity, res_result.found[1].source_field))

\* C27: a resolve_relationship call that is not answered from the result
\* cache works with the schemas added so far for its two tables, whether or
\* not the two tables were resolved before.
C27_AddedSchemaIsUsed ==
    (res_result.kind = "resolved" /\ ~res_result.hit) =>
        res_result.found
            = get_schemas_for_tables(res_result.source_table, res_result.target_table)

\* C28: the result cache never holds more than cache_size entries. A
\* resolve_relationship that changes the cache appends one entry, after
\* dropping the entry inserted earliest when the cache was full, and keeps
\* the other entries in their order; a call answered from the cache leaves
\* the cache as it is.
C28_CacheBoundedFifo ==
    [][/\ Len(res_cache') <= res_cache_size
       /\ (res_cache' # res_cache) =>
             /\ res_cache' # <<>>
             /\ res_cache' = Append(IF Len(res_cache) >= res_cache_size
                                    THEN Tail(res_cache) ELSE res_cache,
                                    res_cache'[Len(res_cache')])
             /\ \A i \in DOMAIN res_cache :
                   res_cache[i].key # res_cache'[Len(res_cache')].key
       /\ (res_result'.kind = "resolved" /\ res_result'.hit) =>
             res_cache' = res_cache]_vars

\* C28 witness: with room for two entries, a group was resolved and cached
\* first, then the two employees: the cache is full and holds the employees
\* only, in the order they were resolved
C28_Witness ==
    /\ res_cache_size = 2
    /\ Len(res_cache) = 2
    /\ res_cache[1].key = <<Employees[1], "5EMPL", "5GRASG">>
    /\ res_cache[2].key = <<Employees[2], "5EMPL", "5GRASG">>
    /\ <<"5GROUP", "5GRASG">> \in DOMAIN res_lru
    /\ res_lru[<<"5GROUP", "5GRASG">>] # <<>>
    /\ res_result.kind = "resolved" /\ ~res_result.hit

(***************************************************************************)
(* Properties of the metadata of load_all_tables.                          *)
(***************************************************************************)
\* C29: after a load_all_tables that returned, the first or a later one on
\* the registry, every table with a metadata entry was read from a file by
\* this load, and the entry's count is the length of the table's rows.
C29_MetadataOfThisLoad ==
    ret.kind = "loaded" =>
        \A t \in DOMAIN metadata :
            /\ t \in DOMAIN loaded_tables
            /\ loaded_tables[t].ext # 0
            /\ metadata[t].path = loaded_tables[t].ext
            /\ metadata[t].count = loaded_tables[t].rows

(***************************************************************************)
(* Properties of get_join_path.                                            *)
(***************************************************************************)
\* the steps a chain may take: a relationship of the manager, or the
\* reversal of one
ChainSteps ==
    relationships \cup {reverse_rel(rel.target_table, rel) : rel \in relationships}

\* the tables a chain of at most n steps leads to from the tables of S
RECURSIVE Within(_, _)
Within(S, n) ==
    IF n <= 0 THEN S
    ELSE Within(S \cup {step.target_table : step \in {x \in ChainSteps : x.source_table \in S}},
                n - 1)

IsChain(path, from_table, to_table) ==
    /\ path # <<>>
    /\ path[1].source_table = from_table
    /\ path[Len(path)].target_table = to_table
    /\ \A i \in DOMAIN path : path[i] \in ChainSteps
    /\ \A i \in 1..(Len(path) - 1) : path[i].target_table = path[i + 1].source_table

\* C30: get_join_path returns the empty list for a table and itself;
\* otherwise a path it returns is a chain of relationships of the manager or
\* their reversals from from_table to to_table, of at most max_depth steps
\* and as short as any chain, and it returns None only when no chain of at
\* most max_depth steps exists.
C30_ShortestJoinPath ==
    jp_result.kind = "called" =>
        LET from_table == jp_result.from_table
            to_table == jp_result.to_table
            returned == jp_result.returned
        IN  IF from_table = to_table THEN returned = Path(<<>>)
            ELSE IF returned.kind = "path"
            THEN /\ IsChain(returned.path, from_table, to_table)
                 /\ Len(returned.path) <= jp_result.max_depth
                 /\ to_table \notin Within({from_table}, Len(returned.path) - 1)
            ELSE to_table \notin Within({from_table}, jp_result.max_depth)

====
